---- MODULE Spec2Model ----
(***************************************************************************)
(* The shared request/response core of the Feedbin API client variants:    *)
(* request dispatch, error classification, response decoding,              *)
(* subscription creation and the dual-verb bulk removals.                  *)
(*                                                                         *)
(* Variants (one prefix per implementation):                               *)
(*   vscode      feedbin-api/vscode-cline-claude4, unnamed/part_013        *)
(*   zed         feedbin-api/zed-claude-4, unnamed/part_006, part_009      *)
(*   claudecode  feedbin-api/claudecode-claude-4-opus/client.go,           *)
(*               unnamed/part_019, part_020                                *)
(*   jetbrains   feedbin-api/jetbrains-zencoder, unnamed/part_023,         *)
(*               doRequest/parseResponse in claudecode-claude-4-opus/tags.go*)
(*   gemini      feedbin-api/gemini-cli-gemini-2.5-pro                     *)
(*   jules       feedbin-api/google-jules/feedbinapi, unnamed/part_015     *)
(*   kilo        unnamed/part_024                                          *)
(*                                                                         *)
(* One action is one call of a client operation.  The responses of the     *)
(* server (or the failure of the transport) are inputs of the call, drawn  *)
(* from Responses.  The state records the last call: its arguments, the    *)
(* requests it handed to the transport, the responses it received, and     *)
(* what it returned.                                                       *)
(***************************************************************************)
EXTENDS Integers, Sequences, FiniteSets, TLC

VARIABLES
    pc,      \* "idle": no call in progress; "returned": the last call has returned
    call,    \* the operation called and its arguments
    sent,    \* the requests handed to the transport during the call, in order
    rcvd,    \* the responses received during the call, in order
    ret,     \* what the call returned: error, decoded value
    closed,  \* closed[i]: the body of rcvd[i] was closed when the call returned
    cache,   \* vscode: the contents of the optional response cache (URL -> payload)
    thr,     \* concurrent calls: each thread's operation and position in its code
    client,  \* concurrent calls: the fields of the one client the threads share
    crashed, \* concurrent calls: the runtime has aborted the process
    fn,      \* helper functions: the function applied, "-" before it is applied
    arg,     \* helper functions: the input
    res,     \* helper functions: the result
    ctx,     \* cancellation: the caller's signal, "live" or "done"
    flight,  \* cancellation: the call in flight and the time it has waited
    server,  \* iterators: the pages the server holds and how it links them
    eiter,   \* iterators: the fields of the EntryIterator
    piter,   \* iterators: the fields of the PageIterator
    reqlog,  \* iterators: the requests the iterator has sent, in order
    yielded, \* iterators: the pages the iterator has returned, in order
    itret    \* iterators: what the last call on the iterator returned

seqvars == <<pc, call, sent, rcvd, ret, closed, cache>>
convars == <<thr, client, crashed>>
purevars == <<fn, arg, res>>
cancelvars == <<ctx, flight>>
itervars == <<server, eiter, piter, reqlog, yielded, itret>>
objvars == <<cancelvars, itervars>>
vars == <<pc, call, sent, rcvd, ret, closed, cache, thr, client, crashed, fn, arg, res,
          ctx, flight, server, eiter, piter, reqlog, yielded, itret>>

\* no call in flight
NoFlight == [impl |-> "-", pc |-> "idle", bound |-> FALSE, ticks |-> 0, late |-> 0,
             err |-> "none", calls |-> 0]

\* the objects of the other specifications at rest
\* NewEntryIterator, NewPageIterator: the iterators as constructed
NewEntryIterator == [nextURL |-> <<>>, hasMore |-> TRUE]
NewPageIterator == [currentPage |-> 0, hasMore |-> TRUE]
NoServer == [n |-> 0, foreign |-> 0, past |-> "-"]
NoReturn == [err |-> "none", page |-> 0, sent |-> FALSE, empty |-> FALSE]

\* the objects of the other specifications at rest
ObjIdle ==
    /\ ctx = "live"
    /\ flight = NoFlight
    /\ server = NoServer
    /\ eiter = NewEntryIterator
    /\ piter = NewPageIterator
    /\ reqlog = <<>>
    /\ yielded = <<>>
    /\ itret = NoReturn

-----------------------------------------------------------------------------
(* Bounds of the model *)

\* bulk ID lists have length 0..SmallLen, the ceiling, and the ceiling + OverLimit
SmallLen == 2
OverLimit == 1

\* the number of threads calling one client concurrently
NThreads == 2

\* a Link header names at most MaxLinks relations
MaxLinks == 3

\* the timer of the http.Client fires after TimeoutTicks ticks of waiting
TimeoutTicks == 3

\* the caller makes at most MaxCalls calls one after the other
MaxCalls == 2

\* the server holds at most MaxPages pages; an iterator sends at most
\* MaxRequests requests
MaxPages == 3
MaxRequests == 5

\* the list fetched by MarkAllAsRead fills at most MaxBatches batches and
\* OverLimit more
MaxBatches == 2

-----------------------------------------------------------------------------
(* JSON payloads.  A payload is a kind and a sequence of naturals:          *)
(*   empty    zero bytes                                                    *)
(*   garbage  bytes that are not JSON                                       *)
(*   sub      a subscription object, v = <<id>>                             *)
(*   errobj   an object {"message": ...}, v = <<message id>>                *)
(*   objarr   an array of objects with a title (feed candidates or          *)
(*            subscriptions), v = the titles in order                       *)
(*   idarr    an array of numbers, v = the numbers in order                 *)

EmptyBody == [k |-> "empty", v |-> <<>>]
Garbage == [k |-> "garbage", v |-> <<>>]
SubObj(id) == [k |-> "sub", v |-> <<id>>]
ErrObj(m) == [k |-> "errobj", v |-> <<m>>]
ObjArr(titles) == [k |-> "objarr", v |-> titles]
IdArr(ids) == [k |-> "idarr", v |-> ids]

Bodies ==
    { EmptyBody, Garbage, SubObj(7), ErrObj(9),
      ObjArr(<<1, 2>>), ObjArr(<<3>>), IdArr(<<1, 2>>) }

\* status 0 stands for a transport failure: no response at all
Statuses == {200, 204, 300, 302, 304, 400, 401, 403, 404, 415, 418, 429, 500, 501, 503}

TransportFailure == [status |-> 0, body |-> EmptyBody]

\* what one transport invocation yields; net/http gives a 204 or a 304
\* response an empty body
Responses ==
    {[status |-> s, body |-> b] : s \in Statuses \ {204, 304}, b \in Bodies}
        \cup {[status |-> s, body |-> EmptyBody] : s \in {204, 304}}
        \cup {TransportFailure}

\* the targets a caller hands to the decoder: none, a struct, []int, []struct
TargetTypes == {"nil", "struct", "intarr", "objarr"}

Zeros(n) == [i \in 1..n |-> 0]

(* encoding/json: Decoder.Decode / Unmarshal of a payload into a target of   *)
(* type tt holding tv.  Result: the error ("none", "EOF", "syntax", "type") *)
(* and the target afterwards.                                               *)
Decode(body, tt, tv) ==
    CASE body.k = "empty" -> [err |-> "EOF", tv |-> tv]
      [] body.k = "garbage" -> [err |-> "syntax", tv |-> tv]
      [] body.k = "sub" ->
            IF tt = "struct" THEN [err |-> "none", tv |-> body.v]
            ELSE [err |-> "type", tv |-> tv]
      [] body.k = "errobj" ->
            \* an object with no field of the struct: decoded, nothing set
            IF tt = "struct" THEN [err |-> "none", tv |-> tv]
            ELSE [err |-> "type", tv |-> tv]
      [] body.k = "objarr" ->
            CASE tt = "objarr" -> [err |-> "none", tv |-> body.v]
              [] tt = "intarr" -> [err |-> "type", tv |-> Zeros(Len(body.v))]
              [] OTHER -> [err |-> "type", tv |-> tv]
      [] body.k = "idarr" ->
            CASE tt = "intarr" -> [err |-> "none", tv |-> body.v]
              [] tt = "objarr" -> [err |-> "type", tv |-> Zeros(Len(body.v))]
              [] OTHER -> [err |-> "type", tv |-> tv]

-----------------------------------------------------------------------------
(* Requests.  A path is the sequence of the pieces of the string the code   *)
(* writes: "/unread_entries/delete.json" is                                 *)
(* <<"/", "unread_entries", "/delete", ".json">>.                           *)

NoBody == [key |-> "none", v |-> <<>>]
Wrapped(key, v) == [key |-> key, v |-> v]

Request(method, path, body) == [method |-> method, path |-> path, body |-> body]

-----------------------------------------------------------------------------
(* Errors.  fields names the attributes the variant's error type carries.   *)

NoErr ==
    [type |-> "none", status |-> 0, kind |-> "-", retryable |-> FALSE,
     raw |-> EmptyBody, choices |-> <<>>, fields |-> {}]

TransportErr == [NoErr EXCEPT !.type = "transport"]
DecodeErr(status) == [NoErr EXCEPT !.type = "decode", !.status = status]
ValidationErr == [NoErr EXCEPT !.type = "validation"]

-----------------------------------------------------------------------------
(* vscode: unnamed/part_013 *)

MaxBulkOperationSize == 1000

\* Client.handleErrorResponse: the APIError has no kind, only Retryable
vscode_handleErrorResponse(resp) ==
    [NoErr EXCEPT !.type = "api", !.status = resp.status, !.kind = "untyped",
                  !.retryable = (resp.status >= 500 \/ resp.status = 429),
                  !.fields = {"retryable"}]

NoEntry == [k |-> "none", v |-> <<>>]

\* the URLs the modelled operations GET
GetPaths == {<<"subscriptions", ".json">>}

EmptyCache == [p \in GetPaths |-> NoEntry]

\* a lookup that finds nothing
vscode_cacheGet_miss(st, url) == NoEntry

\* c.cache != nil followed by MemoryCache.Get(url)
vscode_cacheGet(st, url) ==
    IF st.on /\ url \in GetPaths THEN st.data[url] ELSE NoEntry

(* Client.doRequest.  st is the client's cache: st.on is c.cache != nil,    *)
(* st.data maps a URL to the cached payload or NoEntry.                     *)
vscode_doRequest(st, req, resp, tt, tv) ==
    LET isGet == req.method = "GET" /\ req.path \in GetPaths
        cached == vscode_cacheGet(st, req.path)
        notModified == resp.status = 304 /\ st.on /\ cached # NoEntry
    IN
    CASE resp.status = 0 ->
            [err |-> TransportErr, tv |-> tv, st |-> st, status |-> 0]
      [] resp.status # 0 /\ notModified ->
            IF tt # "nil"
            THEN LET d == Decode(cached, tt, tv) IN
                 [err |-> IF d.err = "none" THEN NoErr ELSE DecodeErr(304),
                  tv |-> d.tv, st |-> st, status |-> 304]
            ELSE [err |-> NoErr, tv |-> tv, st |-> st, status |-> 304]
      [] resp.status # 0 /\ ~notModified /\ (resp.status < 200 \/ resp.status >= 300) ->
            [err |-> vscode_handleErrorResponse(resp), tv |-> tv, st |-> st,
             status |-> resp.status]
      [] OTHER ->
            LET st2 == IF isGet /\ st.on /\ resp.status = 200
                       THEN [st EXCEPT !.data[req.path] = resp.body]
                       ELSE st
                d == IF tt # "nil" /\ resp.body.k # "empty"
                     THEN Decode(resp.body, tt, tv)
                     ELSE [err |-> "none", tv |-> tv]
            IN [err |-> IF d.err = "none" THEN NoErr ELSE DecodeErr(resp.status),
                tv |-> d.tv, st |-> st2, status |-> resp.status]

-----------------------------------------------------------------------------
(* zed: feedbin-api/zed-claude-4 *)

\* NewAPIError: StatusCode, Status, Message and the raw Body
zed_NewAPIError(resp) ==
    [NoErr EXCEPT !.type = "api", !.status = resp.status, !.kind = "untyped",
                  !.raw = resp.body, !.fields = {"raw"}]

\* checkResponse
zed_checkResponse(resp) ==
    IF resp.status >= 200 /\ resp.status < 300 THEN NoErr ELSE zed_NewAPIError(resp)

\* Client.do
\* closed: NewAPIError closes the body, do closes it when decoding fails,
\* and otherwise the response is returned with its body open
zed_do(resp, tt, tv) ==
    IF resp.status = 0 THEN [err |-> TransportErr, tv |-> tv, closed |-> TRUE]
    ELSE IF zed_checkResponse(resp) # NoErr
         THEN [err |-> zed_checkResponse(resp), tv |-> tv, closed |-> TRUE]
         ELSE IF tt # "nil"
              THEN LET d == Decode(resp.body, tt, tv) IN
                   [err |-> IF d.err = "none" THEN NoErr ELSE DecodeErr(resp.status),
                    tv |-> d.tv, closed |-> d.err # "none"]
              ELSE [err |-> NoErr, tv |-> tv, closed |-> FALSE]

\* Client.decodeErrorBody: a stub that decodes nothing and reports success
zed_decodeErrorBody(body, tv) == [err |-> "none", tv |-> tv]

-----------------------------------------------------------------------------
(* claudecode: feedbin-api/claudecode-claude-4-opus/client.go, part_019 *)

\* newAPIError: the kind is the Go type of the error returned
claudecode_newAPIError(resp) ==
    LET s == resp.status
        kind == CASE s = 401 -> "AuthenticationError"
                  [] s = 404 -> "NotFoundError"
                  [] s = 400 -> "ValidationError"
                  [] s = 429 -> "RateLimitError"
                  [] s \in {500, 502, 503, 504} -> "ServerError"
                  [] OTHER -> "APIError"
    IN [NoErr EXCEPT !.type = "api", !.status = s, !.kind = kind,
                     !.fields = {"kind"}]

\* Client.request: the response is returned to the caller unless status >= 400
claudecode_request(resp) ==
    IF resp.status = 0 THEN TransportErr
    ELSE IF resp.status >= 400 THEN claudecode_newAPIError(resp)
         ELSE NoErr

\* Client.get / Client.post / Client.patch: request, then decode unless 204
claudecode_get(resp, tt, tv) ==
    IF claudecode_request(resp) # NoErr
    THEN [err |-> claudecode_request(resp), tv |-> tv]
    ELSE IF tt # "nil" /\ resp.status # 204
         THEN LET d == Decode(resp.body, tt, tv) IN
              [err |-> IF d.err = "none" THEN NoErr ELSE DecodeErr(resp.status),
               tv |-> d.tv]
         ELSE [err |-> NoErr, tv |-> tv]

\* Client.post: as Client.get
claudecode_post(resp, tt, tv) ==
    IF claudecode_request(resp) # NoErr
    THEN [err |-> claudecode_request(resp), tv |-> tv]
    ELSE IF tt # "nil" /\ resp.status # 204
         THEN LET d == Decode(resp.body, tt, tv) IN
              [err |-> IF d.err = "none" THEN NoErr ELSE DecodeErr(resp.status),
               tv |-> d.tv]
         ELSE [err |-> NoErr, tv |-> tv]

\* Client.delete: request, the body is never decoded
claudecode_delete(resp) == claudecode_request(resp)

-----------------------------------------------------------------------------
(* jetbrains: doRequest / parseResponse (claudecode-claude-4-opus/tags.go) *)

PlainErr(status) == [NoErr EXCEPT !.type = "plain", !.status = status]

\* Client.doRequest: fails only when the transport fails
jetbrains_doRequest(resp) == IF resp.status = 0 THEN TransportErr ELSE NoErr

\* parseResponse
jetbrains_parseResponse(resp, tt, tv) ==
    IF resp.status < 200 \/ resp.status >= 300
    THEN [err |-> PlainErr(resp.status), tv |-> tv]
    ELSE IF tt = "nil" THEN [err |-> NoErr, tv |-> tv]
         ELSE LET d == Decode(resp.body, tt, tv) IN
              [err |-> IF d.err = "none" THEN NoErr ELSE DecodeErr(resp.status),
               tv |-> d.tv]

-----------------------------------------------------------------------------
(* gemini: feedbin-api/gemini-cli-gemini-2.5-pro/client.go *)

\* Client.do
gemini_do(resp, tt, tv) ==
    IF resp.status = 0 THEN [err |-> TransportErr, tv |-> tv]
    ELSE IF resp.status >= 400
         THEN [err |-> [NoErr EXCEPT !.type = "api", !.status = resp.status,
                                     !.kind = "untyped"],
               tv |-> tv]
         ELSE IF tt # "nil"
              THEN LET d == Decode(resp.body, tt, tv) IN
                   [err |-> IF d.err = "none" THEN NoErr ELSE DecodeErr(resp.status),
                    tv |-> d.tv]
              ELSE [err |-> NoErr, tv |-> tv]

-----------------------------------------------------------------------------
(* kilo: unnamed/part_024 *)

\* Client.do
kilo_do(resp, tt, tv) ==
    IF resp.status = 0 THEN [err |-> TransportErr, tv |-> tv]
    ELSE IF resp.status >= 400
         THEN [err |-> [NoErr EXCEPT !.type = "api", !.status = resp.status,
                                     !.kind = "untyped", !.raw = resp.body,
                                     !.fields = {"raw"}],
               tv |-> tv]
         ELSE IF tt # "nil"
              THEN LET d == Decode(resp.body, tt, tv) IN
                   [err |-> IF d.err = "none" THEN NoErr ELSE DecodeErr(resp.status),
                    tv |-> d.tv]
              ELSE [err |-> NoErr, tv |-> tv]

-----------------------------------------------------------------------------
(* jules: feedbin-api/google-jules/feedbinapi *)

\* newAPIError (errors.go)
jules_newAPIError(resp) ==
    [NoErr EXCEPT !.type = "api", !.status = resp.status, !.kind = "untyped",
                  !.raw = resp.body, !.fields = {"raw"}]

\* Client.do: an EOF from the decoder (empty body) is ignored
jules_do(resp, tt, tv) ==
    IF resp.status = 0 THEN [err |-> TransportErr, tv |-> tv]
    ELSE IF resp.status < 200 \/ resp.status > 299
         THEN [err |-> jules_newAPIError(resp), tv |-> tv]
         ELSE IF tt # "nil"
              THEN LET d == Decode(resp.body, tt, tv) IN
                   [err |-> IF d.err \in {"none", "EOF"} THEN NoErr
                            ELSE DecodeErr(resp.status),
                    tv |-> d.tv]
              ELSE [err |-> NoErr, tv |-> tv]

-----------------------------------------------------------------------------
(* The call record and the value a call returns *)

Call(impl, op, ids, alt, tt, tv) ==
    [impl |-> impl, op |-> op, ids |-> ids, alt |-> alt, tt |-> tt, tv |-> tv]

NoCall == Call("-", "-", <<>>, FALSE, "nil", <<>>)

\* val is the decoded value returned (<<>> for nil or the zero value)
Ret(err, val) == [err |-> err, val |-> val]

\* every response of r had its body closed (a transport failure has none)
AllClosed(r) == [i \in DOMAIN r |-> TRUE]

FeedURLs == {0, 5}   \* 0 is the empty string

MultipleChoicesError(choices) ==
    [NoErr EXCEPT !.type = "multiple_choices", !.status = 300, !.choices = choices,
                  !.fields = {"choices"}]

-----------------------------------------------------------------------------
(* Subscription creation *)

\* vscode: Client.CreateSubscription (subscriptions.go)
vscode_CreateSubscription(feedURL, r1, r2) ==
    LET post == Request("POST", <<"subscriptions", ".json">>, Wrapped("feed_url", <<feedURL>>))
        a == vscode_doRequest(cache, post, r1, "struct", <<>>)
        get == Request("GET", <<"subscriptions", ".json">>, NoBody)
        b == vscode_doRequest(a.st, get, r2, "objarr", <<>>)
    IN
    /\ call' = Call("vscode", "CreateSubscription", <<feedURL>>, FALSE, "struct", <<>>)
    /\ IF a.err # NoErr
       THEN IF a.err.type = "api" /\ a.err.status = 300
            THEN /\ sent' = <<post, get>>
                 /\ rcvd' = <<r1, r2>>
                 /\ cache' = b.st
                 /\ ret' = IF b.err = NoErr
                           THEN Ret(MultipleChoicesError(b.tv), <<>>)
                           ELSE Ret(a.err, <<>>)
            ELSE /\ sent' = <<post>>
                 /\ rcvd' = <<r1>>
                 /\ cache' = a.st
                 /\ ret' = Ret(a.err, <<>>)
       ELSE /\ sent' = <<post>>
            /\ rcvd' = <<r1>>
            /\ cache' = a.st
            /\ ret' = Ret(NoErr, a.tv)
    \* doRequest defers Body.Close
    /\ closed' = AllClosed(rcvd')

\* zed: Client.CreateSubscription (unnamed/part_006)
zed_CreateSubscription(feedURL, r1) ==
    LET post == Request("POST", <<"/", "subscriptions", ".json">>, Wrapped("feed_url", <<feedURL>>))
        a == zed_do(r1, "struct", <<>>)
        dec == zed_decodeErrorBody(a.err.raw, <<>>)
    IN
    /\ call' = Call("zed", "CreateSubscription", <<feedURL>>, FALSE, "struct", <<>>)
    /\ cache' = cache
    /\ IF feedURL = 0
       THEN sent' = <<>> /\ rcvd' = <<>> /\ closed' = <<>> /\ ret' = Ret(ValidationErr, <<>>)
       ELSE /\ sent' = <<post>>
            /\ rcvd' = <<r1>>
            /\ closed' = <<TRUE>>
            /\ ret' = IF a.err # NoErr
                      THEN IF a.err.type = "api" /\ a.err.status = 300 /\ dec.err = "none"
                           THEN Ret([a.err EXCEPT !.choices = dec.tv,
                                                  !.fields = @ \cup {"choices"}], <<>>)
                           ELSE Ret(a.err, <<>>)
                      ELSE Ret(NoErr, a.tv)

\* jetbrains: Client.CreateSubscription (jetbrains-zencoder/subscriptions.go)
jetbrains_CreateSubscription(feedURL, r1) ==
    LET post == Request("POST", <<"/", "subscriptions", ".json">>, Wrapped("feed_url", <<feedURL>>))
        opts == jetbrains_parseResponse(r1, "objarr", <<>>)
        sub == jetbrains_parseResponse(r1, "struct", <<>>)
    IN
    /\ call' = Call("jetbrains", "CreateSubscription", <<feedURL>>, FALSE, "struct", <<>>)
    /\ closed' = <<TRUE>>
    /\ cache' = cache
    /\ sent' = <<post>>
    /\ rcvd' = <<r1>>
    /\ ret' = IF jetbrains_doRequest(r1) # NoErr THEN Ret(jetbrains_doRequest(r1), <<>>)
              ELSE IF r1.status = 300
                   THEN IF opts.err # NoErr THEN Ret(opts.err, <<>>)
                        ELSE Ret([PlainErr(300) EXCEPT !.choices = opts.tv], <<>>)
                   ELSE IF sub.err # NoErr THEN Ret(sub.err, <<>>)
                        ELSE Ret(NoErr, sub.tv)

\* gemini: Client.CreateSubscription (client.go); &subscription is returned
\* together with the error
gemini_CreateSubscription(feedURL, r1) ==
    LET post == Request("POST", <<"subscriptions", ".json">>, Wrapped("feed_url", <<feedURL>>))
        a == gemini_do(r1, "struct", <<>>)
    IN
    /\ call' = Call("gemini", "CreateSubscription", <<feedURL>>, FALSE, "struct", <<>>)
    /\ closed' = <<TRUE>>
    /\ cache' = cache
    /\ sent' = <<post>>
    /\ rcvd' = <<r1>>
    /\ ret' = Ret(a.err, a.tv)

\* the second response is drawn only when the call asks for it
Followup(needed, r1) == IF needed THEN Responses ELSE {r1}

CreateSubscription ==
    /\ pc = "idle"
    /\ pc' = "returned"
    /\ UNCHANGED <<convars, purevars, objvars>>
    /\ \E u \in FeedURLs, r1 \in Responses :
        \/ \E r2 \in Followup(r1.status = 300, r1) : vscode_CreateSubscription(u, r1, r2)
        \/ zed_CreateSubscription(u, r1)
        \/ jetbrains_CreateSubscription(u, r1)
        \/ gemini_CreateSubscription(u, r1)

-----------------------------------------------------------------------------
(* Bulk removals: DELETE with a body, or POST to the /delete alternate path *)

IdLens == (0..SmallLen) \cup {MaxBulkOperationSize, MaxBulkOperationSize + OverLimit}
Ids(n) == [i \in 1..n |-> i]
IdLists == {Ids(n) : n \in IdLens}

\* the state a call leaves behind; cl tells which response bodies it closed
DoneWith(c, s, r, cl, rt, st) ==
    /\ call' = c
    /\ sent' = s
    /\ rcvd' = r
    /\ closed' = cl
    /\ ret' = rt
    /\ cache' = st

\* the state left behind by a call whose request core defers Body.Close
Done(c, s, r, rt, st) == DoneWith(c, s, r, AllClosed(r), rt, st)

\* gemini: the request Client.MarkAsRead builds (client.go:408-415)
gemini_MarkAsRead_req(ids, alt) ==
    IF alt
    THEN Request("POST", <<"unread_entries", "/delete", ".json">>, Wrapped("unread_entries", ids))
    ELSE Request("DELETE", <<"unread_entries", ".json">>, Wrapped("unread_entries", ids))

\* gemini: Client.MarkAsRead(ids, usePostAlternative...): no check of the list
gemini_MarkAsRead(ids, alt, r1) ==
    LET a == gemini_do(r1, "intarr", <<>>)
    IN Done(Call("gemini", "MarkAsRead", ids, alt, "intarr", <<>>),
            <<gemini_MarkAsRead_req(ids, alt)>>, <<r1>>, Ret(a.err, a.tv), cache)

\* claudecode: the request Client.MarkEntriesRead builds (part_020:59-64)
claudecode_MarkEntriesRead_req(ids) ==
    Request("DELETE", <<"/", "unread_entries", ".json">>, Wrapped("unread_entries", ids))

\* claudecode: Client.MarkEntriesRead (unnamed/part_020)
claudecode_MarkEntriesRead(ids, r1) ==
    LET c == Call("claudecode", "MarkEntriesRead", ids, FALSE, "nil", <<>>)
    IN IF Len(ids) = 0 THEN Done(c, <<>>, <<>>, Ret(NoErr, <<>>), cache)
       ELSE IF Len(ids) > 1000 THEN Done(c, <<>>, <<>>, Ret(PlainErr(0), <<>>), cache)
       ELSE Done(c, <<claudecode_MarkEntriesRead_req(ids)>>, <<r1>>,
                 Ret(claudecode_delete(r1), <<>>), cache)

\* claudecode: the request Client.MarkEntriesReadAlt builds (part_020:195-200)
claudecode_MarkEntriesReadAlt_req(ids) ==
    Request("POST", <<"/", "unread_entries", "/delete", ".json">>,
            Wrapped("unread_entries", ids))

\* claudecode: Client.MarkEntriesReadAlt (unnamed/part_020)
claudecode_MarkEntriesReadAlt(ids, r1) ==
    LET c == Call("claudecode", "MarkEntriesRead", ids, TRUE, "nil", <<>>)
        a == claudecode_post(r1, "nil", <<>>)
    IN IF Len(ids) = 0 THEN Done(c, <<>>, <<>>, Ret(NoErr, <<>>), cache)
       ELSE IF Len(ids) > 1000 THEN Done(c, <<>>, <<>>, Ret(PlainErr(0), <<>>), cache)
       ELSE Done(c, <<claudecode_MarkEntriesReadAlt_req(ids)>>, <<r1>>,
                 Ret(a.err, <<>>), cache)

\* zed: the request Client.MarkAsRead builds (entries.go:132-137)
zed_MarkAsRead_req(ids) ==
    Request("DELETE", <<"/", "unread_entries", ".json">>, Wrapped("unread_entries", ids))

\* zed: Client.MarkAsRead (entries.go)
zed_MarkAsRead(ids, r1) ==
    LET c == Call("zed", "MarkAsRead", ids, FALSE, "intarr", <<>>)
        a == zed_do(r1, "intarr", <<>>)
    IN IF Len(ids) = 0 THEN Done(c, <<>>, <<>>, Ret(ValidationErr, <<>>), cache)
       ELSE IF Len(ids) > 1000 THEN Done(c, <<>>, <<>>, Ret(ValidationErr, <<>>), cache)
       ELSE DoneWith(c, <<zed_MarkAsRead_req(ids)>>, <<r1>>, <<a.closed>>,
                 IF a.err # NoErr THEN Ret(a.err, <<>>) ELSE Ret(NoErr, a.tv), cache)

\* zed: the request Client.MarkAsReadPOST builds (entries.go:161-166)
zed_MarkAsReadPOST_req(ids) ==
    Request("POST", <<"/", "unread_entries", "/delete", ".json">>,
            Wrapped("unread_entries", ids))

\* zed: Client.MarkAsReadPOST (entries.go)
zed_MarkAsReadPOST(ids, r1) ==
    LET c == Call("zed", "MarkAsRead", ids, TRUE, "intarr", <<>>)
        a == zed_do(r1, "intarr", <<>>)
    IN IF Len(ids) = 0 THEN Done(c, <<>>, <<>>, Ret(ValidationErr, <<>>), cache)
       ELSE IF Len(ids) > 1000 THEN Done(c, <<>>, <<>>, Ret(ValidationErr, <<>>), cache)
       ELSE DoneWith(c, <<zed_MarkAsReadPOST_req(ids)>>, <<r1>>, <<a.closed>>,
                 IF a.err # NoErr THEN Ret(a.err, <<>>) ELSE Ret(NoErr, a.tv), cache)

\* jules: the request UnreadEntriesService.MarkAsRead builds (part_015:59-62)
jules_MarkAsRead_req(ids) ==
    Request("DELETE", <<"unread_entries", ".json">>, Wrapped("unread_entries", ids))

\* jules: UnreadEntriesService.MarkAsRead (unnamed/part_015): no ceiling check
jules_MarkAsRead(ids, r1) ==
    LET c == Call("jules", "MarkAsRead", ids, FALSE, "intarr", <<>>)
        a == jules_do(r1, "intarr", <<>>)
    IN IF Len(ids) = 0 THEN Done(c, <<>>, <<>>, Ret(PlainErr(0), <<>>), cache)
       ELSE Done(c, <<jules_MarkAsRead_req(ids)>>, <<r1>>,
                 IF a.err # NoErr THEN Ret(a.err, <<>>) ELSE Ret(NoErr, a.tv), cache)

\* jules: the request UnreadEntriesService.MarkAsReadAlt builds (part_015:81-84)
jules_MarkAsReadAlt_req(ids) ==
    Request("POST", <<"unread_entries", "/delete", ".json">>, Wrapped("unread_entries", ids))

\* jules: UnreadEntriesService.MarkAsReadAlt (unnamed/part_015)
jules_MarkAsReadAlt(ids, r1) ==
    LET c == Call("jules", "MarkAsRead", ids, TRUE, "intarr", <<>>)
        a == jules_do(r1, "intarr", <<>>)
    IN IF Len(ids) = 0 THEN Done(c, <<>>, <<>>, Ret(PlainErr(0), <<>>), cache)
       ELSE Done(c, <<jules_MarkAsReadAlt_req(ids)>>, <<r1>>,
                 IF a.err # NoErr THEN Ret(a.err, <<>>) ELSE Ret(NoErr, a.tv), cache)

\* jetbrains: Client.MarkEntriesAsRead (unnamed/part_023): the only removal form
jetbrains_MarkEntriesAsRead(ids, r1) ==
    LET c == Call("jetbrains", "MarkEntriesAsRead", ids, FALSE, "nil", <<>>)
        req == Request("POST", <<"/", "unread_entries", "/delete", ".json">>,
                       Wrapped("entries", ids))
    IN DoneWith(c, <<req>>, <<r1>>,
                \* only parseResponse closes the body
                <<r1.status # 200>>,
                IF jetbrains_doRequest(r1) # NoErr THEN Ret(jetbrains_doRequest(r1), <<>>)
                ELSE IF r1.status # 200
                     THEN Ret(jetbrains_parseResponse(r1, "nil", <<>>).err, <<>>)
                     ELSE Ret(NoErr, <<>>),
                cache)

\* jetbrains: Client.StarEntries (jetbrains-zencoder/subscriptions.go)
jetbrains_StarEntries(ids, r1) ==
    LET c == Call("jetbrains", "StarEntries", ids, FALSE, "nil", <<>>)
        req == Request("POST", <<"/", "starred_entries", ".json">>, Wrapped("entries", ids))
    IN DoneWith(c, <<req>>, <<r1>>,
                <<r1.status # 200>>,
                IF jetbrains_doRequest(r1) # NoErr THEN Ret(jetbrains_doRequest(r1), <<>>)
                ELSE IF r1.status # 200
                     THEN Ret(jetbrains_parseResponse(r1, "nil", <<>>).err, <<>>)
                     ELSE Ret(NoErr, <<>>),
                cache)

\* vscode: the body of MarkAsRead (unread.go) and of UnstarEntries (part_013),
\* which differ in the resource only: DELETE, then POST to the alternate
vscode_deleteThenPost(c, del, post, r1, r2) ==
    LET ids == c.ids
        a == vscode_doRequest(cache, del, r1, "nil", <<>>)
        b == vscode_doRequest(a.st, post, r2, "intarr", <<>>)
    IN IF Len(ids) = 0 THEN Done(c, <<>>, <<>>, Ret(NoErr, <<>>), cache)
       ELSE IF Len(ids) > MaxBulkOperationSize
            THEN Done(c, <<>>, <<>>, Ret(PlainErr(0), <<>>), cache)
       ELSE IF a.err # NoErr THEN Done(c, <<del>>, <<r1>>, Ret(a.err, <<>>), a.st)
       ELSE IF b.err # NoErr THEN Done(c, <<del, post>>, <<r1, r2>>, Ret(b.err, <<>>), b.st)
       ELSE Done(c, <<del, post>>, <<r1, r2>>,
                 IF b.status = 200 THEN Ret(NoErr, b.tv) ELSE Ret(NoErr, ids), b.st)

\* vscode: the body of MarkAsReadPOST and of UnstarEntriesPOST
vscode_postAlternate(c, post, r1) ==
    LET ids == c.ids
        a == vscode_doRequest(cache, post, r1, "intarr", <<>>)
    IN IF Len(ids) = 0 THEN Done(c, <<>>, <<>>, Ret(NoErr, <<>>), cache)
       ELSE IF Len(ids) > MaxBulkOperationSize
            THEN Done(c, <<>>, <<>>, Ret(PlainErr(0), <<>>), cache)
       ELSE Done(c, <<post>>, <<r1>>,
                 IF a.err # NoErr THEN Ret(a.err, <<>>) ELSE Ret(NoErr, a.tv), a.st)

\* vscode: the DELETE request of Client.MarkAsRead (unread.go:57-62)
vscode_MarkAsRead_req(ids) ==
    Request("DELETE", <<"unread_entries", ".json">>, Wrapped("unread_entries", ids))

\* the alternate request with the body key of another resource
vscode_MarkAsReadPOST_req_otherKey(ids) ==
    Request("POST", <<"unread_entries", "/delete", ".json">>, Wrapped("starred_entries", ids))

\* vscode: the POST request of Client.MarkAsReadPOST (unread.go:96-101), which
\* Client.MarkAsRead also sends (unread.go:69)
vscode_MarkAsReadPOST_req(ids) ==
    Request("POST", <<"unread_entries", "/delete", ".json">>, Wrapped("unread_entries", ids))

\* vscode: Client.MarkAsRead (unread.go)
vscode_MarkAsRead(ids, r1, r2) ==
    vscode_deleteThenPost(Call("vscode", "MarkAsRead", ids, FALSE, "intarr", <<>>),
        vscode_MarkAsRead_req(ids), vscode_MarkAsReadPOST_req(ids), r1, r2)

\* vscode: Client.MarkAsReadPOST (unread.go)
vscode_MarkAsReadPOST(ids, r1) ==
    vscode_postAlternate(Call("vscode", "MarkAsRead", ids, TRUE, "intarr", <<>>),
        vscode_MarkAsReadPOST_req(ids), r1)

\* vscode: the DELETE request of Client.UnstarEntries (part_013:502-507)
vscode_UnstarEntries_req(ids) ==
    Request("DELETE", <<"starred_entries", ".json">>, Wrapped("starred_entries", ids))

\* vscode: the POST request of Client.UnstarEntriesPOST (part_013:541-546), which
\* Client.UnstarEntries also sends (part_013:514)
vscode_UnstarEntriesPOST_req(ids) ==
    Request("POST", <<"starred_entries", "/delete", ".json">>,
            Wrapped("starred_entries", ids))

\* vscode: Client.UnstarEntries (unnamed/part_013)
vscode_UnstarEntries(ids, r1, r2) ==
    vscode_deleteThenPost(Call("vscode", "UnstarEntries", ids, FALSE, "intarr", <<>>),
        vscode_UnstarEntries_req(ids), vscode_UnstarEntriesPOST_req(ids), r1, r2)

\* vscode: Client.UnstarEntriesPOST (unnamed/part_013)
vscode_UnstarEntriesPOST(ids, r1) ==
    vscode_postAlternate(Call("vscode", "UnstarEntries", ids, TRUE, "intarr", <<>>),
        vscode_UnstarEntriesPOST_req(ids), r1)

\* a DELETE answered without error is followed by the POST
Succeeds2xx(r) == r.status >= 200 /\ r.status < 300

BulkRemoval ==
    /\ pc = "idle"
    /\ pc' = "returned"
    /\ UNCHANGED <<convars, purevars, objvars>>
    /\ \E ids \in IdLists, r1 \in Responses :
        \/ \E alt \in BOOLEAN : gemini_MarkAsRead(ids, alt, r1)
        \/ claudecode_MarkEntriesRead(ids, r1)
        \/ claudecode_MarkEntriesReadAlt(ids, r1)
        \/ zed_MarkAsRead(ids, r1)
        \/ zed_MarkAsReadPOST(ids, r1)
        \/ jules_MarkAsRead(ids, r1)
        \/ jules_MarkAsReadAlt(ids, r1)
        \/ jetbrains_MarkEntriesAsRead(ids, r1)
        \/ \E r2 \in Followup(Succeeds2xx(r1), r1) : vscode_MarkAsRead(ids, r1, r2)
        \/ vscode_MarkAsReadPOST(ids, r1)
        \/ \E r2 \in Followup(Succeeds2xx(r1), r1) : vscode_UnstarEntries(ids, r1, r2)
        \/ vscode_UnstarEntriesPOST(ids, r1)

StarEntries ==
    /\ pc = "idle"
    /\ pc' = "returned"
    /\ UNCHANGED <<convars, purevars, objvars>>
    /\ \E ids \in IdLists, r1 \in Responses : jetbrains_StarEntries(ids, r1)

-----------------------------------------------------------------------------
(* Decoding a response into a caller-supplied target *)

\* the value the target holds before the call
TargetValues(tt) ==
    CASE tt = "nil" -> {<<>>}
      [] tt = "struct" -> {<<>>, <<4>>}
      [] OTHER -> {<<>>, <<4, 6>>}

\* vscode: Client.get (unnamed/part_013) of subscriptions.json
vscode_Get(tt, tv, r1) ==
    LET req == Request("GET", <<"subscriptions", ".json">>, NoBody)
        a == vscode_doRequest(cache, req, r1, tt, tv)
    IN Done(Call("vscode", "get", <<>>, FALSE, tt, tv), <<req>>, <<r1>>,
            Ret(a.err, a.tv), a.st)

\* zed: Client.GetFromURL (client.go): do with the caller's result
zed_GetFromURL(tt, tv, r1) ==
    LET a == zed_do(r1, tt, tv) IN
    DoneWith(Call("zed", "GetFromURL", <<>>, FALSE, tt, tv),
             <<Request("GET", <<"url">>, NoBody)>>, <<r1>>, <<a.closed>>,
             Ret(a.err, a.tv), cache)

\* claudecode: Client.get (client.go)
claudecode_Get(tt, tv, r1) ==
    LET a == claudecode_get(r1, tt, tv) IN
    Done(Call("claudecode", "get", <<>>, FALSE, tt, tv),
         <<Request("GET", <<"/", "path">>, NoBody)>>, <<r1>>, Ret(a.err, a.tv), cache)

\* kilo: Client.do (unnamed/part_024) on a GET request
kilo_Do(tt, tv, r1) ==
    LET a == kilo_do(r1, tt, tv) IN
    Done(Call("kilo", "do", <<>>, FALSE, tt, tv),
         <<Request("GET", <<"path">>, NoBody)>>, <<r1>>, Ret(a.err, a.tv), cache)

\* jules: Client.do (client.go) on a GET request
jules_Do(tt, tv, r1) ==
    LET a == jules_do(r1, tt, tv) IN
    Done(Call("jules", "do", <<>>, FALSE, tt, tv),
         <<Request("GET", <<"path">>, NoBody)>>, <<r1>>, Ret(a.err, a.tv), cache)

DecodeInto ==
    /\ pc = "idle"
    /\ pc' = "returned"
    /\ UNCHANGED <<convars, purevars, objvars>>
    /\ \E tt \in TargetTypes, r1 \in Responses : \E tv \in TargetValues(tt) :
        \/ vscode_Get(tt, tv, r1)
        \/ zed_GetFromURL(tt, tv, r1)
        \/ claudecode_Get(tt, tv, r1)
        \/ kilo_Do(tt, tv, r1)
        \/ jules_Do(tt, tv, r1)

-----------------------------------------------------------------------------
(* The specification *)

\* the caller takes the result; the client keeps only its cache
Return ==
    /\ pc = "returned"
    /\ pc' = "idle"
    /\ call' = NoCall
    /\ sent' = <<>>
    /\ rcvd' = <<>>
    /\ closed' = <<>>
    /\ ret' = Ret(NoErr, <<>>)
    /\ UNCHANGED cache
    /\ UNCHANGED <<convars, purevars, objvars>>

\* no helper function is being applied
NoArg == [kind |-> "none"]
NoResult == [kind |-> "none"]

\* the threads of the concurrent runs, and a thread that is not in a call
Threads == 1..NThreads
IdleThread ==
    [op |-> "-", pc |-> "idle", resp |-> TransportFailure, acc |-> "none", url |-> 0]

Init ==
    /\ pc = "idle"
    /\ call = NoCall
    /\ sent = <<>>
    /\ rcvd = <<>>
    /\ closed = <<>>
    /\ ret = Ret(NoErr, <<>>)
    /\ cache \in {[on |-> b, data |-> EmptyCache] : b \in BOOLEAN}
    /\ thr = [t \in Threads |-> IdleThread]
    /\ client = [cacheOn |-> FALSE, cache |-> NoEntry, baseURL |-> 0]
    /\ crashed = FALSE
    /\ fn = "-"
    /\ arg = NoArg
    /\ res = NoResult
    /\ ObjIdle

Next ==
    \/ CreateSubscription
    \/ BulkRemoval
    \/ StarEntries
    \/ DecodeInto
    \/ Return

Spec == Init /\ [][Next]_vars

-----------------------------------------------------------------------------
(* Concurrent calls on one client.  A thread's pc is the line of the call   *)
(* it executes next.  MemoryCache.Get and MemoryCache.Set are plain map     *)
(* accesses taking no lock: each is a step that begins the access and a     *)
(* step that ends it, and nothing keeps other threads out in between.       *)
(* client.cache is the map's entry for the one URL the threads request.     *)

\* the base URLs a caller sets: 0 is the default, 1 a custom one
BaseURLs == {0, 1}

ConcResponses ==
    { [status |-> 200, body |-> ObjArr(<<1, 2>>)],
      [status |-> 200, body |-> ObjArr(<<3>>)],
      [status |-> 304, body |-> EmptyBody],
      [status |-> 500, body |-> ErrObj(9)],
      TransportFailure }

\* vscode: a GET enters Client.doRequest (part_013:248)
vscode_get_Start(t) ==
    /\ ~crashed
    /\ UNCHANGED <<seqvars, purevars, objvars>>
    /\ thr[t].pc = "idle"
    /\ thr' = [thr EXCEPT ![t] = [IdleThread EXCEPT !.op = "vscode_get",
                  !.pc = IF client.cacheOn THEN "L249" ELSE "L259"]]
    /\ UNCHANGED <<client, crashed>>

\* another thread is inside a map access that conflicts with mode
Conflict(t, mode) ==
    \E u \in Threads \ {t} :
        thr[u].acc # "none" /\ (mode = "write" \/ thr[u].acc = "write")

\* vscode: a map access begins: MemoryCache.Get (part_013:249, 267) or
\* MemoryCache.Set (part_013:302).  Two conflicting accesses at once are a
\* data race, which the Go runtime may abort ("concurrent map writes").
MemoryCache_Begin(t) ==
    LET mode == IF thr[t].pc = "L302" THEN "write" ELSE "read" IN
    /\ ~crashed
    /\ UNCHANGED <<seqvars, purevars, objvars>>
    /\ thr[t].pc \in {"L249", "L267", "L302"}
    /\ thr[t].acc = "none"
    /\ thr' = [thr EXCEPT ![t].acc = mode]
    /\ crashed' \in (IF Conflict(t, mode) THEN BOOLEAN ELSE {FALSE})
    /\ UNCHANGED client

\* vscode: the map access ends; Set has stored the response body
MemoryCache_End(t) ==
    /\ ~crashed
    /\ UNCHANGED <<seqvars, purevars, objvars>>
    /\ thr[t].acc # "none"
    /\ thr' = [thr EXCEPT ![t].acc = "none",
                          ![t].pc = IF thr[t].pc = "L249" THEN "L259" ELSE "ret"]
    /\ client' = IF thr[t].pc = "L302"
                 THEN [client EXCEPT !.cache = thr[t].resp.body]
                 ELSE client
    /\ UNCHANGED crashed

\* vscode: the transport answers (part_013:259); a 304 goes to the cache
\* lookup, a 200 to the cache store
vscode_get_Transport(t) ==
    /\ ~crashed
    /\ UNCHANGED <<seqvars, purevars, objvars>>
    /\ thr[t].pc = "L259"
    /\ \E r \in ConcResponses :
        thr' = [thr EXCEPT ![t].resp = r,
                           ![t].pc = IF r.status = 304 /\ client.cacheOn THEN "L267"
                                     ELSE IF r.status = 200 /\ client.cacheOn THEN "L302"
                                     ELSE "ret"]
    /\ UNCHANGED <<client, crashed>>

\* zed: Client.SetBaseURL assigns c.baseURL
zed_SetBaseURL(t) ==
    /\ ~crashed
    /\ UNCHANGED <<seqvars, purevars, objvars>>
    /\ thr[t].pc = "idle"
    /\ \E u \in BaseURLs : client' = [client EXCEPT !.baseURL = u]
    /\ thr' = [thr EXCEPT ![t] = [IdleThread EXCEPT !.op = "SetBaseURL", !.pc = "ret"]]
    /\ UNCHANGED crashed

\* zed: Client.newRequest resolves the path against c.baseURL
zed_newRequest(t) ==
    /\ ~crashed
    /\ UNCHANGED <<seqvars, purevars, objvars>>
    /\ thr[t].pc = "idle"
    /\ thr' = [thr EXCEPT ![t] = [IdleThread EXCEPT !.op = "zed_get", !.pc = "ret",
                                                    !.url = client.baseURL]]
    /\ UNCHANGED <<client, crashed>>

\* the call returns to its caller
ThreadReturn(t) ==
    /\ ~crashed
    /\ UNCHANGED <<seqvars, purevars, objvars>>
    /\ thr[t].pc = "ret"
    /\ thr' = [thr EXCEPT ![t] = IdleThread]
    /\ UNCHANGED <<client, crashed>>

ConcInit ==
    /\ pc = "idle"
    /\ call = NoCall
    /\ sent = <<>>
    /\ rcvd = <<>>
    /\ closed = <<>>
    /\ ret = Ret(NoErr, <<>>)
    /\ cache = [on |-> FALSE, data |-> EmptyCache]
    /\ thr = [t \in Threads |-> IdleThread]
    /\ client \in {[cacheOn |-> b, cache |-> NoEntry, baseURL |-> 0] : b \in BOOLEAN}
    /\ crashed = FALSE
    /\ fn = "-"
    /\ arg = NoArg
    /\ res = NoResult
    /\ ObjIdle

ConcNext ==
    \E t \in Threads :
        \/ vscode_get_Start(t)
        \/ MemoryCache_Begin(t)
        \/ MemoryCache_End(t)
        \/ vscode_get_Transport(t)
        \/ zed_SetBaseURL(t)
        \/ zed_newRequest(t)
        \/ ThreadReturn(t)

ConcSpec == ConcInit /\ [][ConcNext]_vars

-----------------------------------------------------------------------------
(* Helper functions of the request core, applied to inputs drawn from       *)
(* bounded sets.                                                            *)

\* the function name is applied to the input drawn, of the kind it takes
Apply(name, kind, result) ==
    /\ fn = "-"
    /\ arg.kind = kind
    /\ fn' = name
    /\ res' = result
    /\ UNCHANGED <<arg, seqvars, convars, objvars>>

(* URL resolution.  Only the path of a URL is modelled, as the sequence of  *)
(* its separators "/" and its segments: "/v2/" is <<"/", "v2", "/">>.       *)

\* the paths of the base URLs: a bare host, "/v2" and "/v2/"
BasePaths == { <<>>, <<"/", "v2">>, <<"/", "v2", "/">> }

\* the resource paths the operations pass
ResourcePaths ==
    { <<"entries.json">>, <<"/", "entries.json">>,
      <<"entries", "/", "1.json">>, <<"/", "entries", "/", "1.json">> }

HasSuffixSlash(p) == p # <<>> /\ p[Len(p)] = "/"
HasPrefixSlash(p) == p # <<>> /\ p[1] = "/"
TrimPrefixSlash(p) == IF HasPrefixSlash(p) THEN Tail(p) ELSE p
TrimSuffixSlash(p) == IF HasSuffixSlash(p) THEN SubSeq(p, 1, Len(p) - 1) ELSE p

\* the position of the last "/" of p, 0 when it has none
RECURSIVE LastSlash(_)
LastSlash(p) ==
    IF p = <<>> THEN 0
    ELSE IF p[Len(p)] = "/" THEN Len(p)
    ELSE LastSlash(SubSeq(p, 1, Len(p) - 1))

\* net/url URL.ResolveReference: a reference starting with "/" replaces the
\* base path; any other is appended to the base path cut after its last "/"
ResolveReference(base, ref) ==
    IF HasPrefixSlash(ref) THEN ref
    ELSE IF LastSlash(base) = 0 THEN <<"/">> \o ref
    ELSE SubSeq(base, 1, LastSlash(base)) \o ref

\* zed: Client.newRequest: c.baseURL.Parse(path)
zed_newRequest_url(base, path) == ResolveReference(base, path)

\* jules-feedbin-client: Client.NewRequest (unnamed/part_001): the leading
\* slash is trimmed when the base ends in one; nothing is done when neither
\* has a slash
jules_NewRequest_url(base, path) ==
    IF HasSuffixSlash(base) /\ HasPrefixSlash(path)
    THEN ResolveReference(base, TrimPrefixSlash(path))
    ELSE ResolveReference(base, path)

\* vscode: Client.buildURL (unnamed/part_013)
vscode_buildURL(base, path) ==
    TrimSuffixSlash(base) \o <<"/">> \o TrimPrefixSlash(path)

-----------------------------------------------------------------------------
(* Strings.  A string is the sequence of its characters; a URL inside a     *)
(* Link header is one element, "u1", since it holds no delimiter.           *)

Space == {" ", "\t"}

RECURSIVE TrimLeft(_, _)
TrimLeft(str, cutset) ==
    IF str # <<>> /\ str[1] \in cutset THEN TrimLeft(Tail(str), cutset) ELSE str

RECURSIVE TrimRight(_, _)
TrimRight(str, cutset) ==
    IF str # <<>> /\ str[Len(str)] \in cutset
    THEN TrimRight(SubSeq(str, 1, Len(str) - 1), cutset)
    ELSE str

\* strings.Trim(str, cutset): leading and trailing characters of the cutset
Trim(str, cutset) == TrimRight(TrimLeft(str, cutset), cutset)

\* strings.TrimSpace
TrimSpace(str) == Trim(str, Space)

\* strings.Split(str, sep) for a one-character separator
RECURSIVE Split(_, _)
Split(str, sep) ==
    IF \A i \in DOMAIN str : str[i] # sep THEN <<str>>
    ELSE LET i == CHOOSE j \in DOMAIN str :
                      str[j] = sep /\ \A k \in 1..(j - 1) : str[k] # sep
         IN <<SubSeq(str, 1, i - 1)>> \o Split(SubSeq(str, i + 1, Len(str)), sep)

HasPrefixStr(str, pre) == Len(str) >= Len(pre) /\ SubSeq(str, 1, Len(pre)) = pre

\* strings.Index(str, pat): the 0-based offset of the first occurrence, or -1
Index(str, pat) ==
    LET hits == {i \in 0..Len(str) : HasPrefixStr(SubSeq(str, i + 1, Len(str)), pat)}
    IN IF hits = {} THEN 0 - 1 ELSE CHOOSE i \in hits : \A j \in hits : i <= j

\* str[from:to] of Go, offsets 0-based, to exclusive
Slice(str, from, to) == SubSeq(str, from + 1, to)

\* the characters of the relation names and of the text around them
RelChars(name) ==
    CASE name = "first" -> <<"f", "i", "r", "s", "t">>
      [] name = "prev" -> <<"p", "r", "e", "v">>
      [] name = "next" -> <<"n", "e", "x", "t">>
      [] name = "last" -> <<"l", "a", "s", "t">>

RelNames == {"first", "prev", "next", "last"}
RelEq == <<"r", "e", "l", "=", "\"">>

\* the cursor with no URL, and a cursor with the URL of one relation set
NoLinks == [r \in RelNames |-> <<>>]
SetLink(links, rel, url) ==
    IF \E n \in RelNames : RelChars(n) = rel
    THEN [links EXCEPT ![CHOOSE n \in RelNames : RelChars(n) = rel] = url]
    ELSE links

\* jules-feedbin-client: GetPaginationLinks (unnamed/part_001), one part
jules_GetPaginationLinks_part(links, part) ==
    LET segments == Split(TrimSpace(part), ";")
        urlPart == Trim(segments[1], {"<", ">"})
        relPart == TrimSpace(segments[2])
        rel == Trim(relPart, {"r", "e", "l", "=", "\""})
    IN IF Len(segments) < 2 THEN links ELSE SetLink(links, rel, urlPart)

RECURSIVE jules_GetPaginationLinks_loop(_, _)
jules_GetPaginationLinks_loop(links, parts) ==
    IF parts = <<>> THEN links
    ELSE jules_GetPaginationLinks_loop(
             jules_GetPaginationLinks_part(links, Head(parts)), Tail(parts))

\* jules-feedbin-client: GetPaginationLinks (unnamed/part_001)
jules_GetPaginationLinks(header) ==
    IF header = <<>> THEN NoLinks
    ELSE jules_GetPaginationLinks_loop(NoLinks, Split(header, ","))

\* vscode: parseLinkHeader (unnamed/part_013), one part
vscode_parseLinkHeader_part(links, part0) ==
    LET part == TrimSpace(part0)
        idx == Index(part, <<">", ";", " ">> \o RelEq)
        url == TrimLeft(Slice(part, 0, idx), {"<"})
        relStart == idx + 8
        relEnd == Index(Slice(part, relStart, Len(part)), <<"\"">>)
    IN IF idx > 0 /\ relEnd > 0
       THEN SetLink(links, Slice(part, relStart, relStart + relEnd), url)
       ELSE links

RECURSIVE vscode_parseLinkHeader_loop(_, _)
vscode_parseLinkHeader_loop(links, parts) ==
    IF parts = <<>> THEN links
    ELSE vscode_parseLinkHeader_loop(
             vscode_parseLinkHeader_part(links, Head(parts)), Tail(parts))

\* vscode: parseLinkHeader, read as Client.parsePagination reads it
vscode_parseLinkHeader(header) ==
    IF header = <<>> THEN NoLinks
    ELSE vscode_parseLinkHeader_loop(NoLinks, Split(header, ","))

\* the offset of the first character of str at or after i that is (in = TRUE)
\* or is not (in = FALSE) in set; Len(str) when there is none
RECURSIVE Scan(_, _, _, _)
Scan(str, i, set, in) ==
    IF i >= Len(str) THEN Len(str)
    ELSE IF (str[i + 1] \in set) = in THEN i
    ELSE Scan(str, i + 1, set, in)

\* the regular expression <([^>]+)>;\s*rel="([^"]+)" matched at offset i:
\* the offset after the match and the two groups, or end = -1
MatchLinkAt(str, i) ==
    LET j == Scan(str, i + 1, {">"}, TRUE)
        k == Scan(str, j + 2, Space, FALSE)
        m == Scan(str, k + 5, {"\""}, TRUE)
        ok == /\ i < Len(str) /\ str[i + 1] = "<"
              /\ j > i + 1 /\ j < Len(str)
              /\ j + 1 < Len(str) /\ str[j + 2] = ";"
              /\ Slice(str, k, k + 5) = RelEq
              /\ m > k + 5 /\ m < Len(str)
    IN IF ok THEN [end |-> m + 1, url |-> Slice(str, i + 1, j), rel |-> Slice(str, k + 5, m)]
       ELSE [end |-> 0 - 1, url |-> <<>>, rel |-> <<>>]

\* jetbrains: parsePaginationLinks (pagination.go): FindAllStringSubmatch of
\* the regular expression, then the switch on rel
RECURSIVE jetbrains_parsePaginationLinks_from(_, _, _)
jetbrains_parsePaginationLinks_from(links, str, i) ==
    IF i >= Len(str) THEN links
    ELSE LET mt == MatchLinkAt(str, i) IN
         IF mt.end < 0 THEN jetbrains_parsePaginationLinks_from(links, str, i + 1)
         ELSE jetbrains_parsePaginationLinks_from(SetLink(links, mt.rel, mt.url), str, mt.end)

jetbrains_parsePaginationLinks(header) ==
    IF header = <<>> THEN NoLinks
    ELSE jetbrains_parsePaginationLinks_from(NoLinks, header, 0)

\* the text of one link, <url>; rel="name"
LinkText(url, name) ==
    <<"<", url, ">", ";", " ">> \o RelEq \o RelChars(name) \o <<"\"">>

\* the Link header naming the relations of names in order, with the
\* whitespace ws after each comma; the URL of the i-th link is url[i]
RECURSIVE LinkHeader(_, _, _)
LinkHeader(names, urls, ws) ==
    IF names = <<>> THEN <<>>
    ELSE IF Len(names) = 1 THEN LinkText(urls[1], names[1])
    ELSE LinkText(urls[1], names[1]) \o <<",">> \o ws
             \o LinkHeader(Tail(names), Tail(urls), ws)

\* the sequences of at most MaxLinks distinct relation names
NameLists ==
    UNION {{q \in [1..n -> RelNames] : \A i, j \in 1..n : i # j => q[i] # q[j]}
               : n \in 0..MaxLinks}

LinkURLs == <<"u1", "u2", "u3", "u4">>
Whitespaces == {<<>>, <<" ">>, <<" ", "\t">>}

LinkInputs ==
    {[kind |-> "link", names |-> q, ws |-> w] : q \in NameLists, w \in Whitespaces}

ParseLinks ==
    LET header == LinkHeader(arg.names, LinkURLs, arg.ws) IN
    \/ Apply("jules_GetPaginationLinks", "link", jules_GetPaginationLinks(header))
    \/ Apply("vscode_parseLinkHeader", "link", vscode_parseLinkHeader(header))
    \/ Apply("jetbrains_parsePaginationLinks", "link",
             jetbrains_parsePaginationLinks(header))

(* Pagination headers.  A header value is the sequence of its characters;   *)
(* http.Header.Get gives the empty string for a header that is absent.      *)
Digits == <<"0", "1", "2", "3", "4", "5", "6", "7", "8", "9">>
IsDigit(c) == \E i \in 1..10 : Digits[i] = c
DigitVal(c) == (CHOOSE i \in 1..10 : Digits[i] = c) - 1

RECURSIVE DecimalValue(_, _)
DecimalValue(str, acc) ==
    IF str = <<>> THEN acc
    ELSE DecimalValue(Tail(str), acc * 10 + DigitVal(Head(str)))

\* strconv.Atoi: an optional sign and at least one decimal digit, nothing
\* else; the values drawn stay far below the width of int
Atoi(str) ==
    LET signed == str # <<>> /\ Head(str) \in {"+", "-"}
        digits == IF signed THEN Tail(str) ELSE str
    IN  IF digits = <<>> \/ \E i \in DOMAIN digits : ~IsDigit(digits[i])
        THEN [err |-> TRUE, n |-> 0]
        ELSE [err |-> FALSE,
              n |-> IF signed /\ Head(str) = "-"
                    THEN 0 - DecimalValue(digits, 0)
                    ELSE DecimalValue(digits, 0)]

NilPagination == [nil |-> TRUE, links |-> NoLinks, total |-> 0]
Pagination(links, total) == [nil |-> FALSE, links |-> links, total |-> total]

zed_parseLinkHeader(linkHeader) ==
    IF linkHeader = <<>> THEN NoLinks
    ELSE jetbrains_parsePaginationLinks_from(NoLinks, linkHeader, 0)

zed_parseRecordCount(header) ==
    IF header = <<>> THEN 0
    ELSE LET a == Atoi(TrimSpace(header)) IN IF a.err THEN 0 ELSE a.n

zed_extractPaginationInfo(link, count) ==
    Pagination(zed_parseLinkHeader(link), zed_parseRecordCount(count))

jules_parseLinkHeader(header) ==
    IF header = <<>> THEN NoLinks
    ELSE jetbrains_parsePaginationLinks_from(NoLinks, header, 0)

jules_extractPaginationInfo(link, count) ==
    IF link = <<>> /\ count = <<>> THEN NilPagination
    ELSE LET links == jules_parseLinkHeader(link)
             a     == Atoi(count)
             total == IF a.err THEN 0 ELSE a.n
         IN  IF (\E r \in RelNames : links[r] # <<>>) \/ total > 0
             THEN Pagination(links, total)
             ELSE NilPagination

vscode_parsePagination(link, count) ==
    LET a     == Atoi(count)
        total == IF count # <<>> /\ ~a.err THEN a.n ELSE 0
        links == IF link # <<>> THEN vscode_parseLinkHeader(link) ELSE NoLinks
    IN  Pagination(links, total)

\* values of X-Feedbin-Record-Count: absent, zero, counts, not a number,
\* a number followed by text, a negative number
CountHeaders ==
    {<<>>, <<"0">>, <<"7">>, <<"4", "2">>, <<"a", "b", "c">>, <<"1", "2", "x">>,
     <<"-", "5">>}

PageLinkLists == {q \in NameLists : Len(q) <= MaxLinks - 1}

PageInputs ==
    {[kind |-> "page", names |-> q, ws |-> <<" ">>, count |-> c] :
        q \in PageLinkLists, c \in CountHeaders}

ExtractPagination ==
    LET link == LinkHeader(arg.names, LinkURLs, arg.ws) IN
    \/ Apply("zed_extractPaginationInfo", "page",
             zed_extractPaginationInfo(link, arg.count))
    \/ Apply("jules_extractPaginationInfo", "page",
             jules_extractPaginationInfo(link, arg.count))
    \/ Apply("vscode_parsePagination", "page",
             vscode_parsePagination(link, arg.count))

(* Error messages.  A message and the text of a body are sequences of     *)
(* pieces of text.  An error body is one of                                 *)
(*   none     zero bytes                                                    *)
(*   text     bytes that are not JSON                                       *)
(*   long     200 bytes or more that are not JSON                           *)
(*   message  {"message": text}                                             *)
(*   error    {"error": text}                                               *)
(*   errors   {"errors": {field: [text, text2]}}                            *)
(*   other    a JSON object with none of these members                      *)
ErrorBody(form, text) == [form |-> form, text |-> text]

ErrorBodies ==
    { ErrorBody("none", <<>>), ErrorBody("text", <<"oops">>),
      ErrorBody("long", <<"stack trace">>),
      ErrorBody("message", <<"slow down">>), ErrorBody("error", <<"bad feed">>),
      ErrorBody("errors", <<"url", "is invalid", "is taken">>),
      ErrorBody("other", <<"id">>) }

\* the bytes of the body as text
BodyText(body) ==
    CASE body.form = "none" -> <<>>
      [] body.form \in {"text", "long"} -> body.text
      [] body.form = "message" -> <<"{\"message\":\"">> \o body.text \o <<"\"}">>
      [] body.form = "error" -> <<"{\"error\":\"">> \o body.text \o <<"\"}">>
      [] body.form = "errors" ->
            <<"{\"errors\":{\"", body.text[1], "\":[\"", body.text[2], "\",\"",
              body.text[3], "\"]}}">>
      [] OTHER -> <<"{\"">> \o body.text \o <<"\":1}">>

\* len(body) < 200
ShortBody(body) == body.form # "long"

\* http.StatusText
StatusText(s) ==
    CASE s = 300 -> "Multiple Choices"
      [] s = 400 -> "Bad Request"
      [] s = 401 -> "Unauthorized"
      [] s = 403 -> "Forbidden"
      [] s = 404 -> "Not Found"
      [] s = 415 -> "Unsupported Media Type"
      [] s = 429 -> "Too Many Requests"
      [] s = 500 -> "Internal Server Error"
      [] s = 503 -> "Service Unavailable"
      [] OTHER -> ""

\* NewAPIError (zed errors.go): the Message of the error
zed_NewAPIError_Message(status, body) ==
    CASE status = 401 -> <<"invalid credentials">>
      [] status = 403 -> <<"access denied - you don't own this resource">>
      [] status = 404 -> <<"resource not found">>
      [] status = 415 -> <<"content-type must be application/json; charset=utf-8">>
      [] status = 300 -> <<"multiple feeds found at the specified URL">>
      [] OTHER -> IF body.form # "none" /\ ShortBody(body) THEN BodyText(body)
                  ELSE <<>>

\* newAPIError (google-jules errors.go): the Message of the error
jules_newAPIError_Message(status, body) ==
    <<"request failed with status ", StatusText(status), " (code ",
      ToString(status), ")">>

\* Client.handleErrorResponse (part_013): the Message of the error
vscode_handleErrorResponse_Message(status, body) ==
    LET parsed ==
            CASE body.form \in {"message", "error"} -> body.text
              [] body.form = "errors" ->
                    <<body.text[1], ": ", body.text[2], ", ",
                      body.text[1], ": ", body.text[3]>>
              [] OTHER -> <<>>
    IN  IF parsed # <<>> THEN parsed
        ELSE <<ToString(status), " ", StatusText(status)>>

ErrorStatuses == {300, 400, 401, 403, 404, 415, 429, 500, 503}

MessageInputs ==
    {[kind |-> "message", status |-> s, body |-> b] :
        s \in ErrorStatuses, b \in ErrorBodies}

ErrorMessage ==
    \/ Apply("zed_NewAPIError", "message",
             zed_NewAPIError_Message(arg.status, arg.body))
    \/ Apply("jules_newAPIError", "message",
             jules_newAPIError_Message(arg.status, arg.body))
    \/ Apply("vscode_handleErrorResponse", "message",
             vscode_handleErrorResponse_Message(arg.status, arg.body))

(* Credentials.  An identifier or a secret is the sequence of its          *)
(* characters; a request built is the pair sent as Basic authentication.    *)
NoRequest == [built |-> FALSE, user |-> <<>>, pass |-> <<>>]
BuiltRequest(user, pass) == [built |-> TRUE, user |-> user, pass |-> pass]

\* Credentials.Validate (zed auth.go): the field the ValidationError names
zed_Credentials_Validate(email, password) ==
    IF email = <<>> THEN "email"
    ELSE IF password = <<>> THEN "password"
    ELSE "none"

\* Client.newRequest (zed client.go): validation first, then the request
zed_newRequest_auth(email, password) ==
    IF zed_Credentials_Validate(email, password) # "none"
    THEN [err |-> "ValidationError", req |-> NoRequest]
    ELSE [err |-> "none", req |-> BuiltRequest(email, password)]

\* Client.newRequest (gemini client.go): SetBasicAuth with whatever is held
gemini_newRequest_auth(user, password) ==
    [err |-> "none", req |-> BuiltRequest(user, password)]

CredentialParts == {<<>>, <<"a">>, <<"a", "b">>}

CredentialInputs ==
    {[kind |-> "credentials", user |-> u, pass |-> p] :
        u \in CredentialParts, p \in CredentialParts}

BuildRequest ==
    \/ Apply("zed_newRequest_auth", "credentials",
             zed_newRequest_auth(arg.user, arg.pass))
    \/ Apply("gemini_newRequest_auth", "credentials",
             gemini_newRequest_auth(arg.user, arg.pass))

(* EntryOptions (vscode).  The caller hands a pointer: opts is the value   *)
(* it points to, and nil tells that the pointer is nil.  Read and Starred  *)
(* are "nil", "true" or "false".                                            *)
MaxEntriesPerRequest == 100

EntryOptions(ids, read, starred, mode) ==
    [nil |-> FALSE, ids |-> ids, read |-> read, starred |-> starred, mode |-> mode]

NilOptions == [nil |-> TRUE, ids |-> <<>>, read |-> "nil", starred |-> "nil", mode |-> ""]

\* Client.buildEntryParams: the parameters built and the options afterwards;
\* a list longer than MaxEntriesPerRequest is cut in the options themselves
vscode_buildEntryParams(opts) ==
    IF opts.nil THEN [params |-> [ids |-> <<>>, read |-> "nil", starred |-> "nil",
                                  mode |-> ""],
                      opts |-> opts]
    ELSE LET cut == IF Len(opts.ids) > MaxEntriesPerRequest
                    THEN [opts EXCEPT !.ids = SubSeq(opts.ids, 1, MaxEntriesPerRequest)]
                    ELSE opts
         IN  [params |-> [ids |-> cut.ids, read |-> cut.read, starred |-> cut.starred,
                          mode |-> cut.mode],
              opts |-> cut]

\* Client.GetEntries: the request parameters and the caller's options after
\* the call
vscode_GetEntries(opts) == vscode_buildEntryParams(opts)

\* the wrappers write to the caller's options, or to fresh ones when the
\* caller passed nil, and call GetEntries
vscode_GetEntriesExtended(opts) ==
    IF opts.nil
    THEN [params |-> vscode_GetEntries(EntryOptions(<<>>, "nil", "nil", "extended")).params,
          opts |-> opts]
    ELSE vscode_GetEntries([opts EXCEPT !.mode = "extended"])

vscode_GetUnreadEntriesWithDetails(opts) ==
    IF opts.nil
    THEN [params |-> vscode_GetEntries(EntryOptions(<<>>, "false", "nil", "")).params,
          opts |-> opts]
    ELSE vscode_GetEntries([opts EXCEPT !.read = "false"])

vscode_GetStarredEntriesWithDetails(opts) ==
    IF opts.nil
    THEN [params |-> vscode_GetEntries(EntryOptions(<<>>, "nil", "true", "")).params,
          opts |-> opts]
    ELSE vscode_GetEntries([opts EXCEPT !.starred = "true"])

OptionIdLens ==
    (0..SmallLen) \cup {MaxEntriesPerRequest, MaxEntriesPerRequest + OverLimit}

OptionsInputs ==
    {[kind |-> "options", opts |-> o] :
        o \in {NilOptions} \cup
              {EntryOptions(Ids(n), r, st, m) :
                  n \in OptionIdLens, r \in {"nil", "true", "false"},
                  st \in {"nil", "true"}, m \in {"", "extended"}}}

GetEntriesWith ==
    \/ Apply("vscode_GetEntries", "options", vscode_GetEntries(arg.opts))
    \/ Apply("vscode_GetEntriesExtended", "options",
             vscode_GetEntriesExtended(arg.opts))
    \/ Apply("vscode_GetUnreadEntriesWithDetails", "options",
             vscode_GetUnreadEntriesWithDetails(arg.opts))
    \/ Apply("vscode_GetStarredEntriesWithDetails", "options",
             vscode_GetStarredEntriesWithDetails(arg.opts))

UrlInputs == {[kind |-> "url", base |-> b, path |-> p] : b \in BasePaths, p \in ResourcePaths}

PureInputs == UrlInputs \cup LinkInputs \cup PageInputs
                  \cup MessageInputs \cup CredentialInputs
                  \cup OptionsInputs

ResolveURL ==
    \/ Apply("zed_newRequest", "url", zed_newRequest_url(arg.base, arg.path))
    \/ Apply("jules_NewRequest", "url", jules_NewRequest_url(arg.base, arg.path))
    \/ Apply("vscode_buildURL", "url", vscode_buildURL(arg.base, arg.path))

PureInit ==
    /\ pc = "idle"
    /\ call = NoCall
    /\ sent = <<>>
    /\ rcvd = <<>>
    /\ closed = <<>>
    /\ ret = Ret(NoErr, <<>>)
    /\ cache = [on |-> FALSE, data |-> EmptyCache]
    /\ thr = [t \in Threads |-> IdleThread]
    /\ client = [cacheOn |-> FALSE, cache |-> NoEntry, baseURL |-> 0]
    /\ crashed = FALSE
    /\ fn = "-"
    /\ arg \in PureInputs
    /\ res = NoResult
    /\ ObjIdle

PureNext ==
    \/ ResolveURL
    \/ ParseLinks
    \/ ExtractPagination
    \/ ErrorMessage
    \/ BuildRequest
    \/ GetEntriesWith

PureSpec == PureInit /\ [][PureNext]_vars

-----------------------------------------------------------------------------
(* Cancellation.  One call is in flight at a time.  The caller holds a      *)
(* signal (a context with a deadline or a cancel function) that it may      *)
(* trigger at any moment; time passes in ticks while the call waits for     *)
(* the server, and the timer of the http.Client fires after TimeoutTicks.   *)

CancelImpls == {"google-jules", "claudecode", "jules-feedbin-client"}

\* the request is built with the caller's context
\* google-jules newRequest: http.NewRequestWithContext(ctx, ...)
jules_newRequest_ctx == TRUE
\* claudecode request: http.NewRequest, the call takes no context
claudecode_request_ctx == FALSE
\* jules-feedbin-client NewRequest: http.NewRequest, the call takes no context
jules_NewRequest_ctx == FALSE

CarriesSignal(impl) ==
    CASE impl = "google-jules" -> jules_newRequest_ctx
      [] impl = "claudecode" -> claudecode_request_ctx
      [] OTHER -> jules_NewRequest_ctx

\* a call builds its request and hands it to the transport
StartCall ==
    /\ flight.pc = "idle"
    /\ flight.calls < MaxCalls
    /\ \E impl \in CancelImpls :
          flight' = [flight EXCEPT !.impl = impl, !.pc = "waiting",
                                   !.bound = CarriesSignal(impl)]
    /\ UNCHANGED <<ctx, seqvars, convars, purevars, itervars>>

\* the caller cancels, or the caller's deadline passes
TriggerSignal ==
    /\ ctx = "live"
    /\ flight.pc = "waiting"
    /\ ctx' = "done"
    /\ UNCHANGED <<flight, seqvars, convars, purevars, itervars>>

\* net/http returns from Do as soon as the context of the request is done
TransportAbort ==
    /\ flight.pc = "waiting"
    /\ flight.bound
    /\ ctx = "done"
    /\ flight' = [flight EXCEPT !.pc = "returned", !.err = "canceled"]
    /\ UNCHANGED <<ctx, seqvars, convars, purevars, itervars>>

\* time passes while the call waits
Tick ==
    /\ flight.pc = "waiting"
    /\ ~(flight.bound /\ ctx = "done")
    /\ flight.ticks < TimeoutTicks
    /\ flight' = [flight EXCEPT !.ticks = @ + 1,
                                !.late = IF ctx = "done" THEN @ + 1 ELSE @]
    /\ UNCHANGED <<ctx, seqvars, convars, purevars, itervars>>

\* the server answers: success, an API error, or a body that does not decode
ServerResponds ==
    /\ flight.pc = "waiting"
    /\ ~(flight.bound /\ ctx = "done")
    /\ \E e \in {"none", "api", "decode"} :
          flight' = [flight EXCEPT !.pc = "returned", !.err = e]
    /\ UNCHANGED <<ctx, seqvars, convars, purevars, itervars>>

\* the Timeout of the http.Client ends the call; google-jules do returns
\* the error of the context instead when the context is done
ClientTimeout ==
    /\ flight.pc = "waiting"
    /\ flight.ticks = TimeoutTicks
    /\ flight' = [flight EXCEPT !.pc = "returned",
                                !.err = IF flight.bound /\ ctx = "done"
                                        THEN "canceled" ELSE "timeout"]
    /\ UNCHANGED <<ctx, seqvars, convars, purevars, itervars>>

\* the caller takes the result; its next call has a fresh signal
FinishCall ==
    /\ flight.pc = "returned"
    /\ flight' = [NoFlight EXCEPT !.calls = flight.calls + 1]
    /\ ctx' = "live"
    /\ UNCHANGED <<seqvars, convars, purevars, itervars>>

CancelInit ==
    /\ pc = "idle"
    /\ call = NoCall
    /\ sent = <<>>
    /\ rcvd = <<>>
    /\ closed = <<>>
    /\ ret = Ret(NoErr, <<>>)
    /\ cache = [on |-> FALSE, data |-> EmptyCache]
    /\ thr = [t \in Threads |-> IdleThread]
    /\ client = [cacheOn |-> FALSE, cache |-> NoEntry, baseURL |-> 0]
    /\ crashed = FALSE
    /\ fn = "-"
    /\ arg = NoArg
    /\ res = NoResult
    /\ ObjIdle

CancelNext ==
    \/ StartCall
    \/ TriggerSignal
    \/ TransportAbort
    \/ Tick
    \/ ServerResponds
    \/ ClientTimeout
    \/ FinishCall

CancelSpec == CancelInit /\ [][CancelNext]_vars

-----------------------------------------------------------------------------
(* EntryIterator (vscode, unnamed/part_010).  The server holds pages        *)
(* 1..server.n of entries and answers the request for page p with that      *)
(* page and a Link header naming the pages around it.  When                 *)
(* server.foreign = k > 0 the links of the pages k and later point to       *)
(* another host, which serves the same pages.                               *)

Hosts == {"api", "other"}

\* the URL of page p on a host, as the text the Link header carries
PageURL(host, p) == host \o "/v2/entries.json?page=" \o ToString(p)

HostOf(url) == CHOOSE h \in Hosts : \E p \in 1..MaxPages : PageURL(h, p) = url
PageOf(url) == CHOOSE p \in 1..MaxPages : \E h \in Hosts : PageURL(h, p) = url

\* the Link header of the response carrying page p
ServerLink(p) ==
    LET h == IF server.foreign # 0 /\ p >= server.foreign THEN "other" ELSE "api"
        back == IF p > 1 THEN <<"first", "prev">> ELSE <<>>
        backURLs == IF p > 1 THEN <<PageURL(h, 1), PageURL(h, p - 1)>> ELSE <<>>
        fwd == IF p < server.n THEN <<"next", "last">> ELSE <<>>
        fwdURLs == IF p < server.n THEN <<PageURL(h, p + 1), PageURL(h, server.n)>>
                   ELSE <<>>
    IN  LinkHeader(back \o fwd, backURLs \o fwdURLs, <<" ">>)

\* a request of the iterator: every one carries the Basic credentials
IterRequest(url, ok) == [url |-> url, auth |-> TRUE, ok |-> ok]

\* an error return that forgets the page reached
EntryIterator_failed_restart(it) == [it EXCEPT !.nextURL = <<>>]

\* EntryIterator.Next, an error return: the iterator is not touched
EntryIterator_failed(it) == it

\* a position that takes hasMore for granted
EntryIterator_advance_always(it, pagination) ==
    [nextURL |-> pagination.links.next, hasMore |-> TRUE]

\* EntryIterator.Next, the position after a page: nextURL and hasMore
EntryIterator_advance(it, pagination) ==
    [nextURL |-> pagination.links.next, hasMore |-> pagination.links.next # <<>>]

\* the outcomes of one request: the page, a failure of the transport, a
\* status outside 2xx, a body that does not decode
Outcomes == {"ok", "transport", "api", "decode"}

\* EntryIterator.Next
EntryIterator_Next ==
    /\ server.past = "-"
    /\ IF ~eiter.hasMore
       THEN /\ itret' = NoReturn
            /\ UNCHANGED <<eiter, reqlog, yielded>>
       ELSE /\ Len(reqlog) < MaxRequests
            /\ \E o \in Outcomes :
                 LET url == IF eiter.nextURL # <<>> THEN eiter.nextURL[1]
                            ELSE PageURL("api", 1)
                     p   == PageOf(url)
                 IN  /\ reqlog' = Append(reqlog, IterRequest(url, o = "ok"))
                     /\ IF o = "ok"
                        THEN /\ eiter' = EntryIterator_advance(
                                            eiter,
                                            vscode_parsePagination(ServerLink(p), <<>>))
                             /\ yielded' = Append(yielded, p)
                             /\ itret' = [NoReturn EXCEPT !.page = p, !.sent = TRUE]
                        ELSE /\ eiter' = EntryIterator_failed(eiter)
                             /\ yielded' = yielded
                             /\ itret' = [NoReturn EXCEPT !.err = o, !.sent = TRUE]
    /\ UNCHANGED <<server, piter, cancelvars, seqvars, convars, purevars>>

EntryServers ==
    {[n |-> n, foreign |-> k, past |-> "-"] : n \in 1..MaxPages, k \in 0..MaxPages}

IterInit ==
    /\ pc = "idle"
    /\ call = NoCall
    /\ sent = <<>>
    /\ rcvd = <<>>
    /\ closed = <<>>
    /\ ret = Ret(NoErr, <<>>)
    /\ cache = [on |-> FALSE, data |-> EmptyCache]
    /\ thr = [t \in Threads |-> IdleThread]
    /\ client = [cacheOn |-> FALSE, cache |-> NoEntry, baseURL |-> 0]
    /\ crashed = FALSE
    /\ fn = "-"
    /\ arg = NoArg
    /\ res = NoResult
    /\ ctx = "live"
    /\ flight = NoFlight
    /\ server \in {sv \in EntryServers : sv.foreign < sv.n}
    /\ eiter = NewEntryIterator
    /\ piter = NewPageIterator
    /\ reqlog = <<>>
    /\ yielded = <<>>
    /\ itret = NoReturn

IterNext == EntryIterator_Next

IterSpec == IterInit /\ [][IterNext]_vars

-----------------------------------------------------------------------------
(* PageIterator (claudecode pagination.go).  The server holds pages         *)
(* 1..server.n; server.past is its answer to a page past the last one:      *)
(* 404, 204 with no body, or 200 with an empty array.                       *)

PastTheEnd == {"notfound", "nocontent", "emptyarray"}

\* what the server sends for page p when the request goes through
PageResponse(p) ==
    IF p <= server.n THEN "page"
    ELSE CASE server.past = "notfound" -> "api"
           [] server.past = "nocontent" -> "nocontent"
           [] OTHER -> "emptyarray"

\* a guard that runs after the page counter has moved
PageIterator_exhausted_counts(it) == [it EXCEPT !.currentPage = @ + 1]

\* PageIterator.NextPage with hasMore false: the iterator is not touched
PageIterator_exhausted(it) == it

\* PageIterator.NextPage: the iterator after the request for the next page
\* has met outcome o
PageIterator_fetched(it, o) ==
    [currentPage |-> it.currentPage + 1,
     hasMore |-> o \in {"page", "emptyarray"}]

\* PageIterator.NextPage
PageIterator_NextPage ==
    /\ server.past \in PastTheEnd
    /\ IF ~piter.hasMore
       THEN /\ piter' = PageIterator_exhausted(piter)
            /\ itret' = [NoReturn EXCEPT !.err = "no more pages available"]
            /\ UNCHANGED <<reqlog, yielded>>
       ELSE /\ Len(reqlog) < MaxRequests
            /\ \E fail \in {"none", "transport", "api", "decode"} :
                 LET p == piter.currentPage + 1
                     o == IF fail # "none" THEN fail ELSE PageResponse(p)
                 IN  /\ reqlog' = Append(reqlog, IterRequest(PageURL("api", p), o = "page"))
                     /\ piter' = PageIterator_fetched(piter, o)
                     /\ yielded' = IF o = "page" THEN Append(yielded, p) ELSE yielded
                     /\ itret' = [err |-> IF o \in {"transport", "api", "decode"}
                                          THEN o ELSE "none",
                                  page |-> IF o = "page" THEN p ELSE 0,
                                  sent |-> TRUE,
                                  empty |-> o = "nocontent"]
    /\ UNCHANGED <<server, eiter, cancelvars, seqvars, convars, purevars>>

\* PageIterator.Reset
PageIterator_Reset ==
    /\ server.past \in PastTheEnd
    /\ piter' = [currentPage |-> 0, hasMore |-> TRUE]
    /\ itret' = NoReturn
    /\ UNCHANGED <<reqlog, yielded, server, eiter, cancelvars, seqvars, convars,
                   purevars>>

PageInit ==
    /\ pc = "idle"
    /\ call = NoCall
    /\ sent = <<>>
    /\ rcvd = <<>>
    /\ closed = <<>>
    /\ ret = Ret(NoErr, <<>>)
    /\ cache = [on |-> FALSE, data |-> EmptyCache]
    /\ thr = [t \in Threads |-> IdleThread]
    /\ client = [cacheOn |-> FALSE, cache |-> NoEntry, baseURL |-> 0]
    /\ crashed = FALSE
    /\ fn = "-"
    /\ arg = NoArg
    /\ res = NoResult
    /\ ctx = "live"
    /\ flight = NoFlight
    /\ server \in {[n |-> n, foreign |-> 0, past |-> e] :
                      n \in 0..MaxPages, e \in PastTheEnd}
    /\ eiter = NewEntryIterator
    /\ piter = NewPageIterator
    /\ reqlog = <<>>
    /\ yielded = <<>>
    /\ itret = NoReturn

PageNext ==
    \/ PageIterator_NextPage
    \/ PageIterator_Reset

PageSpec == PageInit /\ [][PageNext]_vars

-----------------------------------------------------------------------------
(* MarkAllAsRead and UnstarAllEntries (vscode).  The call fetches the ID    *)
(* list and then walks it in batches; one step is the fetch or one turn of  *)
(* the loop, the bulk call of the turn included.  call.ids is the list      *)
(* fetched, ret.val the IDs collected so far.                               *)

AllOps == {"MarkAllAsRead", "UnstarAllEntries"}

\* the lengths of the list the server returns
FetchLens ==
    (0..SmallLen) \cup {k * MaxBulkOperationSize + d : k \in 1..MaxBatches,
                                                      d \in 0..OverLimit}

\* the answers of the server to the fetch of n IDs
FetchResponses(n) ==
    {[status |-> 200, body |-> IdArr(Ids(n))], [status |-> 500, body |-> EmptyBody],
     TransportFailure}

\* the answers of the server to a bulk request
BatchResponses ==
    {[status |-> 200, body |-> IdArr(<<1, 2>>)], [status |-> 204, body |-> EmptyBody],
     [status |-> 500, body |-> EmptyBody]}

vscode_fetch_req(op) ==
    Request("GET", <<IF op = "MarkAllAsRead" THEN "unread_entries" ELSE "starred_entries",
                     ".json">>, NoBody)

IsDelete(req) == req.method = "DELETE"
IsPost(req) == req.method = "POST"

\* the turns of the loop completed: each ends with the POST of its bulk call
TurnsDone == Len(SelectSeq(sent, IsPost))

\* a batch one ID short of the limit
vscode_batchEnd_short(i, n) ==
    IF i + MaxBulkOperationSize - 1 > n THEN n ELSE i + MaxBulkOperationSize - 1

\* end := i + MaxBulkOperationSize, clamped to the length of the list
vscode_batchEnd(i, n) ==
    IF i + MaxBulkOperationSize > n THEN n ELSE i + MaxBulkOperationSize

\* Client.MarkAsRead / Client.UnstarEntries on one batch: the requests sent,
\* the responses received and what the call returns
vscode_bulkCall(op, ids, r1, r2) ==
    LET del  == IF op = "MarkAllAsRead" THEN vscode_MarkAsRead_req(ids)
                ELSE vscode_UnstarEntries_req(ids)
        post == IF op = "MarkAllAsRead" THEN vscode_MarkAsReadPOST_req(ids)
                ELSE vscode_UnstarEntriesPOST_req(ids)
        a == vscode_doRequest(cache, del, r1, "nil", <<>>)
        b == vscode_doRequest(a.st, post, r2, "intarr", <<>>)
    IN  IF Len(ids) = 0 THEN [sent |-> <<>>, rcvd |-> <<>>, ret |-> Ret(NoErr, <<>>)]
        ELSE IF Len(ids) > MaxBulkOperationSize
             THEN [sent |-> <<>>, rcvd |-> <<>>, ret |-> Ret(PlainErr(0), <<>>)]
        ELSE IF a.err # NoErr
             THEN [sent |-> <<del>>, rcvd |-> <<r1>>, ret |-> Ret(a.err, <<>>)]
        ELSE IF b.err # NoErr
             THEN [sent |-> <<del, post>>, rcvd |-> <<r1, r2>>, ret |-> Ret(b.err, <<>>)]
        ELSE [sent |-> <<del, post>>, rcvd |-> <<r1, r2>>,
              ret |-> IF b.status = 200 THEN Ret(NoErr, b.tv) ELSE Ret(NoErr, ids)]

\* GetUnreadEntries / GetStarredEntries and the test for an empty list
vscode_All_Fetch ==
    /\ pc = "idle"
    /\ \E op \in AllOps, n \in FetchLens :
         \E r \in FetchResponses(n) :
            LET get == vscode_fetch_req(op)
                a   == vscode_doRequest(cache, get, r, "intarr", <<>>)
            IN  /\ sent' = <<get>>
                /\ rcvd' = <<r>>
                /\ closed' = AllClosed(rcvd')
                /\ IF a.err # NoErr
                   THEN /\ call' = Call("vscode", op, <<>>, FALSE, "intarr", <<>>)
                        /\ ret' = Ret(a.err, <<>>)
                        /\ pc' = "returned"
                   ELSE /\ call' = Call("vscode", op, a.tv, FALSE, "intarr", <<>>)
                        /\ ret' = Ret(NoErr, <<>>)
                        /\ pc' = IF Len(a.tv) = 0 THEN "returned" ELSE "loop"
    /\ UNCHANGED <<cache, convars, purevars, objvars>>

\* one turn of the loop: the batch, the bulk call, the append
vscode_All_Batch ==
    /\ pc = "loop"
    /\ \E r1 \in BatchResponses, r2 \in BatchResponses :
         LET i     == TurnsDone * MaxBulkOperationSize
             n     == Len(call.ids)
             end   == vscode_batchEnd(i, n)
             batch == SubSeq(call.ids, i + 1, end)
             b     == vscode_bulkCall(call.op, batch, r1, r2)
         IN  /\ sent' = sent \o b.sent
             /\ rcvd' = rcvd \o b.rcvd
             /\ closed' = AllClosed(rcvd')
             /\ IF b.ret.err # NoErr
                THEN /\ ret' = Ret(b.ret.err, ret.val)
                     /\ pc' = "returned"
                ELSE /\ ret' = Ret(NoErr, ret.val \o b.ret.val)
                     /\ pc' = IF i + MaxBulkOperationSize < n THEN "loop"
                              ELSE "returned"
    /\ UNCHANGED <<call, cache, convars, purevars, objvars>>

BatchInit ==
    /\ pc = "idle"
    /\ call = NoCall
    /\ sent = <<>>
    /\ rcvd = <<>>
    /\ closed = <<>>
    /\ ret = Ret(NoErr, <<>>)
    /\ cache = [on |-> FALSE, data |-> EmptyCache]
    /\ thr = [t \in Threads |-> IdleThread]
    /\ client = [cacheOn |-> FALSE, cache |-> NoEntry, baseURL |-> 0]
    /\ crashed = FALSE
    /\ fn = "-"
    /\ arg = NoArg
    /\ res = NoResult
    /\ ObjIdle

BatchNext ==
    \/ vscode_All_Fetch
    \/ vscode_All_Batch
    \/ Return

BatchSpec == BatchInit /\ [][BatchNext]_vars

-----------------------------------------------------------------------------
(* Claims *)

Returned(impls, op) == pc = "returned" /\ call.op = op /\ call.impl \in impls

BulkOps == {"MarkAsRead", "MarkEntriesRead", "MarkEntriesAsRead", "UnstarEntries"}
DecodeOps == {"GetFromURL", "get", "do"}

\* the status table: kind and retryable flag of a non-2xx status
TableKind(s) ==
    CASE s = 300 -> "MultipleChoices"
      [] s = 400 -> "ValidationFailed"
      [] s = 401 -> "Unauthorized"
      [] s = 403 -> "Forbidden"
      [] s = 404 -> "NotFound"
      [] s = 415 -> "UnsupportedMediaType"
      [] s = 429 -> "RateLimited"
      [] s >= 500 /\ s <= 599 -> "ServerFault"
      [] OTHER -> "Unknown"

TableRetryable(s) == TableKind(s) \in {"RateLimited", "ServerFault"}

\* the kind a Go error type stands for
KindOfType(t) ==
    CASE t = "AuthenticationError" -> "Unauthorized"
      [] t = "NotFoundError" -> "NotFound"
      [] t = "ValidationError" -> "ValidationFailed"
      [] t = "RateLimitError" -> "RateLimited"
      [] t = "ServerError" -> "ServerFault"
      [] OTHER -> "Unknown"

\* C1: an API error returned for a non-2xx status carries the kind and the
\* retryable flag the status table gives for that status code.
C1_ClassifierMatchesTable ==
    (pc = "returned" /\ ret.err.type = "api")
    => /\ "kind" \in ret.err.fields
            => KindOfType(ret.err.kind) = TableKind(ret.err.status)
       /\ "retryable" \in ret.err.fields
            => ret.err.retryable = TableRetryable(ret.err.status)

\* C2: a subscription creation answered 300 with a candidate array returns a
\* typed MultipleChoicesError carrying exactly the candidates of that
\* response body, in order.
C2_CandidatesOfThe300Body ==
    (Returned({"vscode", "zed"}, "CreateSubscription")
        /\ Len(rcvd) >= 1 /\ rcvd[1].status = 300 /\ rcvd[1].body.k = "objarr")
    => /\ "choices" \in ret.err.fields
       /\ ret.err.choices = rcvd[1].body.v

\* the terminal state of a subscription creation, read off what it returned
Outcome ==
    IF ret.err = NoErr
    THEN IF rcvd[1].status = 302 THEN "AlreadyExists" ELSE "Created"
    ELSE IF ret.err.type = "multiple_choices" \/ "choices" \in ret.err.fields
         THEN "AmbiguousChoices"
         ELSE "Failed"

\* C3: a subscription creation answered 2xx or 302 with a subscription ends
\* in Created/AlreadyExists and returns that subscription; answered 300 with
\* candidates it ends in AmbiguousChoices; on any other status or a transport
\* failure it ends in Failed.
C3_TerminalStateFollowsResponse ==
    (Returned({"vscode", "jetbrains", "gemini"}, "CreateSubscription") /\ Len(rcvd) >= 1)
    => LET r == rcvd[1] IN
       /\ ((Succeeds2xx(r) \/ r.status = 302) /\ r.body.k = "sub")
            => (Outcome \in {"Created", "AlreadyExists"} /\ ret.val = r.body.v)
       /\ (r.status = 300 /\ r.body.k = "objarr") => Outcome = "AmbiguousChoices"
       /\ (~Succeeds2xx(r) /\ r.status \notin {300, 302, 304}) => Outcome = "Failed"

\* C4: one call of a client operation hands at most one request to the
\* transport before it returns.
C4_AtMostOneTransportInvocation ==
    pc = "returned" => Len(sent) <= 1

\* C5: a bulk removal called with more than 1000 IDs returns a client-side
\* error and sends no request.
C5_OverCeilingRejectedUnsent ==
    (pc = "returned" /\ call.op \in BulkOps /\ Len(call.ids) > 1000)
    => /\ sent = <<>>
       /\ ret.err.type \in {"validation", "plain"}

\* C6: a bulk removal called with no IDs returns an empty result and no
\* error, and sends no request.
C6_EmptyListIsNoOp ==
    (pc = "returned" /\ call.op \in BulkOps /\ Len(call.ids) = 0)
    => /\ sent = <<>>
       /\ ret.err = NoErr
       /\ ret.val = <<>>

\* the path of the alternate form of a removal on a ".json" resource path
AltPath(p) == SubSeq(p, 1, Len(p) - 1) \o <<"/delete", ".json">>

\* the request the DELETE form of a removal sends for an ID list
DeleteForm(impl, op, ids) ==
    CASE impl = "gemini" -> gemini_MarkAsRead_req(ids, FALSE)
      [] impl = "claudecode" -> claudecode_MarkEntriesRead_req(ids)
      [] impl = "zed" -> zed_MarkAsRead_req(ids)
      [] impl = "jules" -> jules_MarkAsRead_req(ids)
      [] impl = "vscode" /\ op = "MarkAsRead" -> vscode_MarkAsRead_req(ids)
      [] impl = "vscode" /\ op = "UnstarEntries" -> vscode_UnstarEntries_req(ids)

\* C7: a bulk removal called in alternate mode that reaches the transport
\* sends one POST to the resource's /delete.json path with exactly the body
\* the DELETE form sends to the resource's .json path for the same IDs.
C7_AlternateSendsDeleteBody ==
    (pc = "returned" /\ call.op \in BulkOps /\ call.alt /\ sent # <<>>)
    => LET d == DeleteForm(call.impl, call.op, call.ids) IN
       /\ d.method = "DELETE"
       /\ d.path[Len(d.path)] = ".json"
       /\ Len(sent) = 1
       /\ sent[1].method = "POST"
       /\ sent[1].path = AltPath(d.path)
       /\ sent[1].body = d.body

\* C7 happens: an alternate-mode removal of a non-empty list was sent
C7_AlternateSent ==
    /\ pc = "returned" /\ call.op \in BulkOps /\ call.alt
    /\ call.impl = "vscode" /\ call.op = "MarkAsRead"
    /\ Len(call.ids) = SmallLen
    /\ Len(sent) = 1 /\ sent[1].method = "POST"
    /\ sent[1].body.v = call.ids

\* C8: a bulk removal called in the default mode sends the DELETE request
\* and never a POST.
C8_DefaultModeNeverPosts ==
    (pc = "returned" /\ call.op \in BulkOps /\ ~call.alt /\ sent # <<>>)
    => /\ sent[1].method = "DELETE"
       /\ \A i \in DOMAIN sent : sent[i].method # "POST"

\* C9: a call decoding a 2xx response with an empty body (204 included) into
\* the caller's target returns no error and leaves the target as it was.
C9_EmptyBodyLeavesTarget ==
    (pc = "returned" /\ call.op \in DecodeOps /\ Len(rcvd) = 1
        /\ Succeeds2xx(rcvd[1]) /\ rcvd[1].body.k = "empty")
    => /\ ret.err = NoErr
       /\ ret.val = call.tv

\* C10: a call answered 302 with the existing resource returns no error and
\* the resource decoded from the body.
C10_FoundIsSuccess ==
    (pc = "returned" /\ call.impl \in {"vscode", "zed"} /\ call.tt = "struct"
        /\ Len(rcvd) >= 1 /\ rcvd[1].status = 302 /\ rcvd[1].body.k = "sub")
    => /\ ret.err = NoErr
       /\ ret.val = rcvd[1].body.v

\* C11: when a call that keeps the response to itself returns, the body of
\* every response it received has been closed.
C11_EveryBodyClosed ==
    (pc = "returned" /\ call.op # "GetFromURL")
    => \A i \in DOMAIN closed : closed[i]

\* C12: no step of an API operation call changes a field of the client that
\* the calls share; only a configuration setter does.
C12_CallsWriteNoSharedState ==
    [][client' # client => \E t \in Threads : thr'[t].op = "SetBaseURL"]_vars

\* C13: while one call is writing the cache, no other call is reading or
\* writing it.
C13_CacheAccessExclusive ==
    \A t1, t2 \in Threads :
        (t1 # t2 /\ thr[t1].acc = "write") => thr[t2].acc = "none"

\* the payload is JSON of the shape the target type takes
Fits(payload, tt) ==
    \/ payload.k = "sub" /\ tt = "struct"
    \/ payload.k = "objarr" /\ tt = "objarr"
    \/ payload.k = "idarr" /\ tt = "intarr"

JoinedOnce(base, path) == TrimSuffixSlash(base) \o <<"/">> \o TrimPrefixSlash(path)

\* C15: resolving a resource path against a base yields the base path, one
\* separator and the path: none doubled, none dropped, nothing of the base
\* lost.
C15_ResolvedKeepsBaseAndPath ==
    (fn \in {"zed_newRequest", "jules_NewRequest"})
    => res = JoinedOnce(arg.base, arg.path)

\* the cursor a list of named links stands for
CursorOf(names) ==
    [r \in RelNames |->
        IF \E i \in DOMAIN names : names[i] = r
        THEN <<LinkURLs[CHOOSE i \in DOMAIN names : names[i] = r]>>
        ELSE <<>>]

\* C16: parsing a Link header of <url>; rel="name" segments gives the URL of
\* every relation it names and leaves every other relation empty.
C16_LinkHeaderParsed ==
    (fn \in {"jules_GetPaginationLinks", "vscode_parseLinkHeader",
             "jetbrains_parsePaginationLinks"})
    => res = CursorOf(arg.names)

\* C17: response headers that carry no Link header give a pagination cursor
\* value whose four URLs are empty, never a missing cursor.
C17_NoLinkGivesZeroCursor ==
    (fn \in {"zed_extractPaginationInfo", "jules_extractPaginationInfo"}
        /\ arg.names = <<>>)
    => (~res.nil /\ res.links = NoLinks)

\* a record-count header that is a plain decimal number
WellFormedCount(str) == str # <<>> /\ \A i \in DOMAIN str : IsDigit(str[i])

\* C18: the total count is an integer at least 0: the value of the header
\* when it is well formed, 0 when it is absent or malformed, and a cursor
\* is returned in every case.
C18_TotalCountNonNegative ==
    (fn \in {"zed_extractPaginationInfo", "vscode_parsePagination"})
    => /\ ~res.nil
       /\ res.total >= 0
       /\ res.total = IF WellFormedCount(arg.count)
                      THEN DecimalValue(arg.count, 0) ELSE 0

\* C19: every APIError returned for a response outside 2xx carries the raw
\* body of that response.
C19_APIErrorRetainsRawBody ==
    (pc = "returned" /\ ret.err.type = "api")
    => /\ "raw" \in ret.err.fields
       /\ \E i \in DOMAIN rcvd : /\ rcvd[i].status = ret.err.status
                                 /\ rcvd[i].body = ret.err.raw

\* the message a structured error body carries, none when it carries none
StructuredMessage(body) ==
    CASE body.form \in {"message", "error"} -> body.text
      [] body.form = "errors" ->
            <<body.text[1], ": ", body.text[2], ", ",
              body.text[1], ": ", body.text[3]>>
      [] OTHER -> <<>>

\* C20: the message of the error is the message of the structured body when
\* the body has one and the reason phrase of the status otherwise.
C20_MessageFromStructuredBody ==
    (fn \in {"zed_NewAPIError", "jules_newAPIError"})
    => res = IF StructuredMessage(arg.body) # <<>>
             THEN StructuredMessage(arg.body)
             ELSE <<StatusText(arg.status)>>

\* C21: a transport failure met during a call is what the call returns: the
\* error returned is the transport error, neither success nor the error of
\* an earlier response.
C21_FailureIsReturned ==
    (pc = "returned" /\ \E i \in DOMAIN rcvd : rcvd[i].status = 0)
    => ret.err.type = "transport"

\* C22: with an empty identifier or an empty secret no request is built and
\* building fails with an error.
C22_EmptyCredentialsBuildNothing ==
    (fn \in {"zed_newRequest_auth", "gemini_newRequest_auth"}
        /\ (arg.user = <<>> \/ arg.pass = <<>>))
    => (res.err # "none" /\ ~res.req.built)

\* C23: once the caller's signal is triggered the call in flight does not go
\* on waiting, and what it returns to the caller is the cancellation error.
C23_CancelledCallReturnsAtOnce ==
    /\ (flight.pc = "waiting" /\ ctx = "done") => flight.late = 0
    /\ (flight.pc = "returned" /\ ctx = "done") => flight.err = "canceled"

\* the pages of the server in chain order
ChainOrder == [i \in 1..server.n |-> i]

\* C24: the iterator returns the pages of the chain once each and in chain
\* order, and HasMore() is false exactly when the last page has been
\* returned.
C24_IteratesAllPagesInOrder ==
    (server.past = "-" /\ server.n > 0)
    => /\ Len(yielded) <= server.n
       /\ yielded = SubSeq(ChainOrder, 1, Len(yielded))
       /\ (~eiter.hasMore <=> yielded = ChainOrder)

C24_AllPagesReturned ==
    /\ server.n = MaxPages
    /\ yielded = ChainOrder
    /\ ~eiter.hasMore
    /\ \A i \in DOMAIN reqlog : reqlog[i].ok

\* C26: a Next call that returns an error leaves nextURL and hasMore as they
\* were.
C26_ErrorKeepsPosition ==
    [][(itret'.sent /\ itret'.err # "none") => eiter' = eiter]_vars

C26_FailedOnLaterPage ==
    /\ itret.sent
    /\ itret.err # "none"
    /\ eiter.nextURL # <<>>
    /\ eiter.hasMore

\* C27: every request that carries the Basic credentials goes to the host
\* of the configured base endpoint.
C27_CredentialsStayOnBaseHost ==
    \A i \in DOMAIN reqlog :
        (server.past = "-" /\ reqlog[i].auth) => HostOf(reqlog[i].url) = "api"

\* C25: HasNext() is false once the last page of the collection has been
\* fetched, and a collection of n pages takes at most n + 1 requests.
C25_HasNextEndsWithCollection ==
    (server.past \in PastTheEnd)
    => /\ (server.n > 0 /\ itret.sent /\ itret.err = "none"
              /\ piter.currentPage >= server.n) => ~piter.hasMore
       /\ piter.currentPage <= server.n + 1

\* C28: while HasNext() is false a step sends no request, and it either
\* leaves the iterator as it is and returns the no-more-pages error or is
\* Reset; a NextPage call that fails or meets an empty response makes
\* HasNext() false.
C28_ExhaustedUntilReset ==
    [][/\ ~piter.hasMore =>
            /\ reqlog' = reqlog
            /\ \/ piter' = piter /\ itret'.err = "no more pages available"
               \/ piter' = NewPageIterator /\ itret' = NoReturn
       /\ (itret'.sent /\ itret' # itret /\ (itret'.err # "none" \/ itret'.empty))
            => ~piter'.hasMore]_vars

C28_RefusedAfterFailure ==
    /\ ~piter.hasMore
    /\ itret.err = "no more pages available"
    /\ reqlog # <<>>
    /\ piter.currentPage > 0

\* the k-th run of at most MaxBulkOperationSize consecutive IDs
Chunk(ids, k) ==
    SubSeq(ids, (k - 1) * MaxBulkOperationSize + 1,
           IF k * MaxBulkOperationSize > Len(ids) THEN Len(ids)
           ELSE k * MaxBulkOperationSize)

NumChunks(n) == (n + MaxBulkOperationSize - 1) \div MaxBulkOperationSize

\* C29: the batches submitted are the consecutive runs of at most 1000 of the
\* fetched IDs, in order; the alternate request of a batch carries the same
\* IDs; and a call that succeeds has submitted every run.
C29_BatchesPartitionFetchedIds ==
    (call.op \in AllOps)
    => LET d == SelectSeq(sent, IsDelete) IN
       /\ \A k \in DOMAIN d : /\ Len(d[k].body.v) <= MaxBulkOperationSize
                              /\ d[k].body.v = Chunk(call.ids, k)
       /\ \A j \in DOMAIN sent :
             IsPost(sent[j]) => (IsDelete(sent[j - 1])
                                 /\ sent[j].body.v = sent[j - 1].body.v)
       /\ (pc = "returned" /\ ret.err = NoErr) => Len(d) = NumChunks(Len(call.ids))

C29_SeveralBatchesSubmitted ==
    /\ call.op \in AllOps
    /\ pc = "returned"
    /\ ret.err = NoErr
    /\ Len(call.ids) = MaxBatches * MaxBulkOperationSize + OverLimit
    /\ Len(SelectSeq(sent, IsDelete)) = MaxBatches + 1

\* C30: GetEntries and its wrappers leave the options the caller handed in
\* as they were.
C30_OptionsLeftUnchanged ==
    (fn \in {"vscode_GetEntries", "vscode_GetEntriesExtended",
             "vscode_GetUnreadEntriesWithDetails",
             "vscode_GetStarredEntriesWithDetails"})
    => res.opts = arg.opts

====
